---- MODULE Spec2Model ----
(***************************************************************************)
(* Zygn backend: the agreement ("document") lifecycle of                   *)
(* backend/app/documents/routes.py, the payment distribution / payment /   *)
(* wallet handlers of backend/app/payments/routes.py and                   *)
(* backend/app/wallet/routes.py that gate finalization, and the hash chain *)
(* of backend/app/utils/blockchain.py.                                     *)
(*                                                                         *)
(* Every HTTP handler is one action.  A handler is written as an operator  *)
(* that maps the stored collections and the request to the collections     *)
(* after the call plus the HTTP status code and the error it raised; the   *)
(* action stores both, so that a failed call is visible in resp.           *)
(***************************************************************************)
EXTENDS Integers, Sequences, FiniteSets, TLC

VARIABLES documents, payment_distributions, payments, wallets, transactions,
          chain, sealed, pricing_config, resp, calls, active_connections,
          sockets

vars == <<documents, payment_distributions, payments, wallets, transactions,
          chain, sealed, pricing_config, resp, calls, active_connections,
          sockets>>

-----------------------------------------------------------------------------
(* Bounds of the model *)

\* largest amount of a distribution entry
MaxAmount == 1
\* largest total_amount of a distribution
MaxTotal == 2
\* largest amount of a create-payment request
MaxPaymentAmount == 2
\* most entries of one setup-distribution payload
MaxEntries == 2
\* most rows of the wallets collection
MaxWallets == 2
\* most rows of the payments collection
MaxPayments == 2
\* largest wallet balance add_funds may build up
MaxBalance == 3
\* most entries of the transaction log
MaxTx == 3
\* most blocks appended to the hash chain after the genesis block
MaxChain == 2
\* most files of one finalize upload
MaxFinalDocs == 1
\* most rows of the pricing_config collection
MaxPricing == 2
\* the days a start or end date may name
MaxDay == 2
\* the websockets offered to the server
MaxSockets == 3
\* most messages one websocket is sent
MaxReceived == 2

-----------------------------------------------------------------------------
(* Principals, identifiers, inputs *)

Users == {"u1", "u2", "u3"}
\* one agreement is followed, and u1 is the principal who opens it
Initiators == {"u1"}
\* the principals whose wallets are followed
Funders == {"u1"}
DocIds == {"d1"}
\* the requests the server may be handling at the same time, each a coroutine
\* that gives way to the others at every await
Procs == {"p1", "p2"}
\* names save_uploaded_file may hand out (uuid4 names, file_handler.py:29-31)
FileRefs == {"f1"}
\* the composed artifact final_<_id>.pdf of get_final_document_pdf
ComposedRef == "composed"

Statuses == {"draft", "pending", "pending_approval", "approved", "finalized",
             "rejected"}

\* f with key k set to v (a Mongo $set on the dotted path f.k)
Put(f, k, v) == [x \in (DOMAIN f) \cup {k} |-> IF x = k THEN v ELSE f[x]]

EmptyMap == [x \in {} |-> TRUE]

\* find_one over a collection (a sequence, in insertion order), given the
\* positions of the rows that match the filter: the first matching row's
\* position, 0 when there is none
FindOne(matching) ==
    IF matching = {} THEN 0
    ELSE CHOOSE i \in matching : \A j \in matching : i <= j

\* the result of a handler: the collections it leaves and its HTTP answer
Answer(docs, code, detail) == [documents |-> docs, code |-> code, detail |-> detail]


-----------------------------------------------------------------------------
(* Hash chain, utils/blockchain.py *)

\* "0", the previous_hash and hash of the genesis block
ZeroHash == <<0>>

\* sha256 over the canonical JSON of the block: modelled as a perfect hash,
\* the tuple of everything the digest reads (a block that already carries a
\* "hash" key has that key digested too)
calculate_hash(block) ==
    IF "hash" \in DOMAIN block
    THEN <<block.index, block.data, block.previous_hash, block.hash>>
    ELSE <<block.index, block.data, block.previous_hash>>

create_genesis_block ==
    [index |-> 0, data |-> "Genesis Block", previous_hash |-> ZeroHash,
     hash |-> ZeroHash]

\* add_block with previous_hash taken from the genesis block instead of the
\* latest block
add_block_onto_genesis(ch, data) ==
    LET new_block == [index |-> Len(ch), data |-> data,
                      previous_hash |-> ch[1].hash]
    IN  Append(ch, [index |-> new_block.index, data |-> new_block.data,
                    previous_hash |-> new_block.previous_hash,
                    hash |-> calculate_hash(new_block)])

\* the chain after add_block(data)
add_block(ch, data) ==
    LET new_block == [index |-> Len(ch), data |-> data,
                      previous_hash |-> ch[Len(ch)].hash]
    IN  Append(ch, [index |-> new_block.index, data |-> new_block.data,
                    previous_hash |-> new_block.previous_hash,
                    hash |-> calculate_hash(new_block)])

\* the chain after add_to_blockchain(document_id, file_paths)
add_to_blockchain(ch, document_id, file_paths) ==
    add_block(ch, [document_id |-> document_id, files |-> file_paths,
                   type |-> "document_finalization"])

\* verify_blockchain_integrity as a walk over the previous_hash links only
verify_links_only(ch) ==
    \A i \in 2..Len(ch) : ch[i].previous_hash = ch[i - 1].hash

\* verify_blockchain_integrity(): for every block after the genesis block,
\* the stored hash against calculate_hash(current_block), the stored block
\* with its "hash" key, and previous_hash against the block before
verify_blockchain_integrity(ch) ==
    \A i \in 2..Len(ch) :
        /\ ch[i].hash = calculate_hash(ch[i])
        /\ ch[i].previous_hash = ch[i - 1].hash

-----------------------------------------------------------------------------
(* The documents collection *)

\* daily_rate when no pricing config is active, and the defaults of
\* DocumentInDB.daily_rate, total_days and total_amount
DefaultRate == 1

\* start_date or end_date not given (Form(None))
NoDate == 0

\* db.pricing_config.find_one({"is_active": True}) and
\* pricing_config.get("daily_rate", 1.0) if pricing_config else 1.0
active_rate(pricing) ==
    LET found == FindOne({i \in 1..Len(pricing) : pricing[i].is_active})
    IN  IF found = 0 THEN DefaultRate ELSE pricing[found].daily_rate

\* total_days = max(1, date_diff.days + 1) with both dates, 1 otherwise
total_days_of(start_date, end_date) ==
    IF start_date # NoDate /\ end_date # NoDate /\ end_date - start_date + 1 > 1
    THEN end_date - start_date + 1
    ELSE 1

\* DocumentInDB as create_document stores it
NewDocument(u, daily_rate, total_days) ==
    [involved_users |-> {u},
     primary_user |-> u,
     final_docs |-> <<>>,
     status |-> "draft",
     is_locked |-> FALSE,
     user_approvals |-> Put(EmptyMap, u, TRUE),
     ai_forgery_check |-> FALSE,
     blockchain |-> FALSE,
     blockchain_hash |-> <<>>,
     daily_rate |-> daily_rate,
     total_days |-> total_days,
     total_amount |-> daily_rate * total_days]

\* DocumentInDB as initiate_agreement stores it
InitiatedDocument(u, target) ==
    [involved_users |-> {u, target},
     primary_user |-> u,
     final_docs |-> <<>>,
     status |-> "pending",
     is_locked |-> FALSE,
     user_approvals |-> EmptyMap,
     ai_forgery_check |-> FALSE,
     blockchain |-> FALSE,
     blockchain_hash |-> <<>>,
     daily_rate |-> DefaultRate,
     total_days |-> 1,
     total_amount |-> DefaultRate]

\* find_one by _id or document_code: the stored document or nothing
Found(docs, document_id) == document_id \in DOMAIN docs

\* document.get("status") == "finalized" or document.get("is_locked")
IsFinalized(d) == d.status = "finalized" \/ d.is_locked

\* all(approval.get("approved", False) for approval in user_approvals.values())
all_approved(user_approvals) ==
    \A x \in DOMAIN user_approvals : user_approvals[x]

\* DocumentInDB(start_date=parsed_start_date, end_date=parsed_end_date, ...):
\* both fields are Optional[str], and a parsed date is a datetime, so the
\* model is built only when neither date was given
dates_validate(start_date, end_date) ==
    start_date = NoDate /\ end_date = NoDate

\* POST /create.  The ValidationError of DocumentInDB is raised outside
\* every try block of the handler: the call fails with 500 before insert_one.
create_document_result(docs, pricing, u, document_id, has_name, has_raw, verified, start_date, end_date) ==
    IF ~has_name THEN Answer(docs, 400, "name_required")
    ELSE IF ~has_raw THEN Answer(docs, 400, "document_required")
    ELSE IF ~verified THEN Answer(docs, 400, "verification_required")
    ELSE IF ~dates_validate(start_date, end_date)
         THEN Answer(docs, 500, "validation_error")
    ELSE Answer(Put(docs, document_id,
                    NewDocument(u, active_rate(pricing),
                                total_days_of(start_date, end_date))),
                200, "ok")

\* join_update as it would be if joining re-opened the agreement
join_update_unlocking(d, u) ==
    [d EXCEPT !.involved_users = @ \cup {u},
              !.status = "pending_approval",
              !.is_locked = FALSE,
              !.user_approvals = Put(@, u, FALSE)]

\* the $addToSet/$set of join_document
join_update(d, u) ==
    [d EXCEPT !.involved_users = @ \cup {u},
              !.status = "pending_approval",
              !.user_approvals = Put(@, u, FALSE)]

\* POST /join
join_document_result(docs, u, document_id, verified) ==
    IF ~verified THEN Answer(docs, 400, "verification_required")
    ELSE IF ~Found(docs, document_id) THEN Answer(docs, 404, "document_not_found")
    ELSE IF u \in docs[document_id].involved_users
         THEN Answer(docs, 400, "already_member")
    ELSE Answer([docs EXCEPT ![document_id] = join_update(@, u)], 200, "ok")

\* PUT /{document_id}/approve/{user_id}
approve_route_result(docs, u, document_id, user_id) ==
    IF ~Found(docs, document_id) THEN Answer(docs, 404, "document_not_found")
    ELSE IF docs[document_id].primary_user # u
         THEN Answer(docs, 403, "only_primary")
    ELSE Answer([docs EXCEPT ![document_id].status = "approved"], 200, "ok")

\* POST /{document_id}/add-user
add_user_to_document_result(docs, u, document_id, target) ==
    IF ~Found(docs, document_id) THEN Answer(docs, 404, "document_not_found")
    ELSE IF IsFinalized(docs[document_id])
         THEN Answer(docs, 400, "document_finalized")
    ELSE IF docs[document_id].primary_user # u
         THEN Answer(docs, 403, "only_primary")
    ELSE IF target \in docs[document_id].involved_users
         THEN Answer(docs, 400, "already_member")
    ELSE Answer([docs EXCEPT ![document_id].involved_users = @ \cup {target}],
                200, "ok")

\* set_approval as a $set of the whole user_approvals map, built from the
\* document the handler read first
set_whole_approvals(stored, document, user_id) ==
    [stored EXCEPT !.user_approvals = Put(document.user_approvals, user_id, TRUE)]

\* update_one(..., {"$set": {f"user_approvals.{user_id}.approved": True}}):
\* one key of the stored map is written, whatever the handler read before
set_approval(stored, document, user_id) ==
    [stored EXCEPT !.user_approvals = Put(@, user_id, TRUE)]

\* the two update_one calls of PUT /approve-user: flip the entry, then set
\* the status when every entry of user_approvals is approved
approve_update(d, user_id) ==
    LET flipped == [d EXCEPT !.user_approvals = Put(@, user_id, TRUE)]
    IN  IF all_approved(flipped.user_approvals)
        THEN [flipped EXCEPT !.status = "approved"]
        ELSE flipped

\* PUT /{document_id}/approve-user/{user_id}
approve_user_join_result(docs, u, document_id, user_id) ==
    IF ~Found(docs, document_id) THEN Answer(docs, 404, "document_not_found")
    ELSE IF IsFinalized(docs[document_id])
         THEN Answer(docs, 400, "document_finalized")
    ELSE IF docs[document_id].primary_user # u
         THEN Answer(docs, 403, "only_primary")
    ELSE IF user_id \notin docs[document_id].involved_users
         THEN Answer(docs, 400, "not_member")
    ELSE Answer([docs EXCEPT ![document_id] = approve_update(@, user_id)],
                200, "ok")

\* DELETE /{document_id}/remove-user/{user_id}
remove_user_delete_result(docs, u, document_id, user_id) ==
    IF ~Found(docs, document_id) THEN Answer(docs, 404, "document_not_found")
    ELSE IF IsFinalized(docs[document_id])
         THEN Answer(docs, 400, "document_finalized")
    ELSE IF docs[document_id].primary_user # u
         THEN Answer(docs, 403, "only_primary")
    ELSE IF user_id = docs[document_id].primary_user
         THEN Answer(docs, 400, "cannot_remove_primary")
    ELSE IF user_id \notin docs[document_id].involved_users
         THEN Answer(docs, 400, "not_member")
    ELSE Answer([docs EXCEPT ![document_id].involved_users = @ \ {user_id}],
                200, "ok")

\* invite_user_to_document_result as in a handler open to every caller
invite_by_anyone_result(docs, u, document_id, target) ==
    IF ~Found(docs, document_id) THEN Answer(docs, 404, "document_not_found")
    ELSE IF target \in docs[document_id].involved_users
         THEN Answer(docs, 400, "already_member")
    ELSE Answer([docs EXCEPT ![document_id].involved_users = @ \cup {target}],
                200, "ok")

\* POST /{document_id}/invite-user
invite_user_to_document_result(docs, u, document_id, target) ==
    IF ~Found(docs, document_id) THEN Answer(docs, 404, "document_not_found")
    ELSE IF docs[document_id].primary_user # u
         THEN Answer(docs, 403, "only_primary")
    ELSE IF target \in docs[document_id].involved_users
         THEN Answer(docs, 400, "already_member")
    ELSE Answer([docs EXCEPT ![document_id].involved_users = @ \cup {target}],
                200, "ok")

\* PUT /{document_id}/reject-user/{user_id}
reject_user_join_result(docs, u, document_id, user_id) ==
    IF ~Found(docs, document_id) THEN Answer(docs, 404, "document_not_found")
    ELSE IF docs[document_id].primary_user # u
         THEN Answer(docs, 403, "only_primary")
    ELSE IF user_id \notin docs[document_id].involved_users
         THEN Answer(docs, 400, "not_member")
    ELSE Answer([docs EXCEPT ![document_id].involved_users = @ \ {user_id}],
                200, "ok")

\* PUT /{document_id}/remove-user/{user_id}
remove_user_put_result(docs, u, document_id, user_id) ==
    IF ~Found(docs, document_id) THEN Answer(docs, 404, "document_not_found")
    ELSE IF docs[document_id].primary_user # u
         THEN Answer(docs, 403, "only_primary")
    ELSE IF user_id = docs[document_id].primary_user
         THEN Answer(docs, 400, "cannot_remove_primary")
    ELSE IF user_id \notin docs[document_id].involved_users
         THEN Answer(docs, 400, "not_member")
    ELSE Answer([docs EXCEPT ![document_id].involved_users = @ \ {user_id}],
                200, "ok")

\* POST /initiate-agreement
initiate_agreement_result(docs, u, document_id, target) ==
    IF target = u THEN Answer(docs, 400, "cannot_initiate_with_self")
    ELSE Answer(Put(docs, document_id, InitiatedDocument(u, target)), 200, "ok")

\* the first update_one of respond(accept) alone: status and the actor's entry
accept_update_actor_only(d, u) ==
    [d EXCEPT !.status = "approved", !.user_approvals = Put(@, u, TRUE)]

\* the two update_one calls of respond(accept)
accept_update(d, u) ==
    [d EXCEPT !.status = "approved",
              !.user_approvals = Put(Put(@, u, TRUE), d.primary_user, TRUE)]

\* the update_one of respond(reject)
reject_update(d, u) ==
    [d EXCEPT !.involved_users = @ \ {u}, !.status = "rejected"]

\* POST /{document_id}/respond-agreement.  The handler assigns the local
\* name status (lines 1968, 1986), so every raise that reads
\* status.HTTP_... raises UnboundLocalError instead: the call fails with 500.
respond_to_agreement_result(docs, u, document_id, response, verified) ==
    IF response \notin {"accept", "reject"}
         THEN Answer(docs, 500, "unbound_local")
    ELSE IF ~Found(docs, document_id) THEN Answer(docs, 500, "unbound_local")
    ELSE IF docs[document_id].primary_user = u
         THEN Answer(docs, 500, "unbound_local")
    ELSE IF u \notin docs[document_id].involved_users
         THEN Answer(docs, 500, "unbound_local")
    ELSE IF docs[document_id].status # "pending"
         THEN Answer(docs, 500, "unbound_local")
    ELSE IF response = "accept"
         THEN IF ~verified THEN Answer(docs, 500, "unbound_local")
              ELSE Answer([docs EXCEPT ![document_id] = accept_update(@, u)],
                          200, "ok")
    ELSE Answer([docs EXCEPT ![document_id] = reject_update(@, u)], 200, "ok")

-----------------------------------------------------------------------------
(* Payment distributions, payments, wallets, transactions *)

\* percentages are counted in hundredths of a percent: 100.0 and 0.01
PercentTotal == 10000
PercentTolerance == 1

Abs(x) == IF x < 0 THEN 0 - x ELSE x

RECURSIVE SumPercentage(_)
SumPercentage(entries) ==
    IF entries = <<>> THEN 0
    ELSE Head(entries).percentage + SumPercentage(Tail(entries))

\* if abs(total_percentage - 100.0) > 0.01: raise
percentage_mismatch(entries) ==
    Abs(SumPercentage(entries) - PercentTotal) > PercentTolerance

\* names_outsider as in a handler that looks at the first entry only
names_outsider_first_only(entries, involved_users) ==
    entries[1].user_id \notin involved_users

\* if not distribution_users.issubset(involved_users): raise
names_outsider(entries, involved_users) ==
    ~({entries[i].user_id : i \in 1..Len(entries)} \subseteq involved_users)

\* POST /document/{document_id}/setup-distribution
setup_payment_distribution_result(docs, dists, u, document_id, entries, total_amount) ==
    IF ~Found(docs, document_id)
         THEN [payment_distributions |-> dists, code |-> 404,
               detail |-> "document_not_found"]
    ELSE IF docs[document_id].primary_user # u
         THEN [payment_distributions |-> dists, code |-> 403,
               detail |-> "only_primary"]
    ELSE IF percentage_mismatch(entries)
         THEN [payment_distributions |-> dists, code |-> 400,
               detail |-> "percentage_total"]
    ELSE IF names_outsider(entries, docs[document_id].involved_users)
         THEN [payment_distributions |-> dists, code |-> 400,
               detail |-> "not_involved"]
    ELSE [payment_distributions |->
              Put(dists, document_id,
                  [total_amount |-> total_amount, distributions |-> entries]),
          code |-> 200, detail |-> "ok"]

\* the completed payment of user_id for the document, as find_one returns it
CompletedPayment(pays, document_id, user_id) ==
    LET Test(p) == p.document_id = document_id /\ p.user_id = user_id
                   /\ p.status = "completed"
    IN  FindOne({i \in 1..Len(pays) : Test(pays[i])})

\* the loop of finalize_document and check_all_payments_completed: for every
\* distribution entry, the amount of the entry's user's completed payment
RECURSIVE total_paid(_, _, _)
total_paid(entries, pays, document_id) ==
    IF entries = <<>> THEN 0
    ELSE LET i == CompletedPayment(pays, document_id, Head(entries).user_id)
         IN  (IF i = 0 THEN 0 ELSE pays[i].amount)
             + total_paid(Tail(entries), pays, document_id)

\* check_all_payments_completed(document_id, db)
check_all_payments_completed(dists, pays, document_id) ==
    IF document_id \notin DOMAIN dists THEN FALSE
    ELSE total_paid(dists[document_id].distributions, pays, document_id)
             >= dists[document_id].total_amount

\* what a money handler leaves: payments, wallets, transactions, the answer
Money(pays, ws, txs, code, detail) ==
    [payments |-> pays, wallets |-> ws, transactions |-> txs,
     code |-> code, detail |-> detail]

\* db.wallets.find_one({"user_id": u}): the position of the user's first
\* wallet, 0 when there is none.  wallets is a collection like the others:
\* a sequence of rows in insertion order, with no unique index on user_id.
find_wallet(ws, u) == FindOne({i \in 1..Len(ws) : ws[i].user_id = u})

\* wallet["balance"] if wallet else 0
balance_of(ws, u) == IF find_wallet(ws, u) = 0 THEN 0 ELSE ws[find_wallet(ws, u)].balance

\* inc_wallet as an update that applies the increment twice
inc_wallet_twice(ws, u, by) ==
    IF find_wallet(ws, u) = 0 THEN ws
    ELSE [ws EXCEPT ![find_wallet(ws, u)].balance = @ + by + by]

\* db.wallets.update_one({"user_id": u}, {"$inc": {"balance": by}}): the
\* first matching wallet is updated, none when there is no match
inc_wallet(ws, u, by) ==
    IF find_wallet(ws, u) = 0 THEN ws
    ELSE [ws EXCEPT ![find_wallet(ws, u)].balance = @ + by]

\* WalletInDB(user_id=u, balance=balance)
new_wallet(u, balance) == [user_id |-> u, balance |-> balance]

\* payment_completed as in a handler that lets a paid principal pay again
payment_completed_ignored(pays, existing) == existing \notin 0..Len(pays)

\* if existing_payment and existing_payment["status"] == COMPLETED: raise
payment_completed(pays, existing) ==
    existing # 0 /\ pays[existing].status = "completed"

\* insufficient_balance as in a handler that only asks for a wallet
insufficient_balance_unchecked(ws, u, amount) == find_wallet(ws, u) = 0

\* if not wallet or wallet["balance"] < amount: raise
insufficient_balance(ws, u, amount) ==
    find_wallet(ws, u) = 0 \/ balance_of(ws, u) < amount

\* POST /document/{document_id}/pay
make_document_payment_result(docs, dists, pays, ws, txs, u, document_id) ==
    IF ~Found(docs, document_id)
         THEN Money(pays, ws, txs, 404, "document_not_found")
    ELSE IF u \notin docs[document_id].involved_users
         THEN Money(pays, ws, txs, 403, "access_denied")
    ELSE IF document_id \notin DOMAIN dists
         THEN Money(pays, ws, txs, 400, "no_distribution")
    ELSE
    LET entries == dists[document_id].distributions
        IsMine(e) == e.user_id = u
        k == FindOne({i \in 1..Len(entries) : IsMine(entries[i])})
        Mine(p) == p.document_id = document_id /\ p.user_id = u
        existing == FindOne({i \in 1..Len(pays) : Mine(pays[i])})
    IN  IF k = 0 THEN Money(pays, ws, txs, 400, "no_entry")
        ELSE IF payment_completed(pays, existing)
             THEN Money(pays, ws, txs, 400, "already_completed")
        ELSE IF insufficient_balance(ws, u, entries[k].amount)
             THEN Money(pays, ws, txs, 400, "insufficient_balance")
                  @@ [required |-> entries[k].amount,
                      available |-> balance_of(ws, u)]
        ELSE
        LET row == [user_id |-> u, document_id |-> document_id,
                    amount |-> entries[k].amount, status |-> "completed"]
            pays2 == IF existing # 0 THEN [pays EXCEPT ![existing] = row]
                     ELSE Append(pays, row)
            payment_id == IF existing # 0 THEN existing ELSE Len(pays) + 1
        IN  Money(pays2,
                  inc_wallet(ws, u, 0 - entries[k].amount),
                  Append(txs, [user_id |-> u, type |-> "payment",
                               amount |-> 0 - entries[k].amount,
                               payment_id |-> payment_id]),
                  200, "ok")

\* POST /create of the payments router
create_payment_result(docs, pays, ws, txs, u, document_id, amount) ==
    IF ~Found(docs, document_id)
         THEN Money(pays, ws, txs, 404, "document_not_found")
    ELSE IF u \notin docs[document_id].involved_users
         THEN Money(pays, ws, txs, 403, "access_denied")
    ELSE IF insufficient_balance(ws, u, amount)
         THEN Money(pays, ws, txs, 400, "insufficient_balance")
    ELSE Money(Append(pays, [user_id |-> u, document_id |-> document_id,
                             amount |-> amount, status |-> "pending"]),
               inc_wallet(ws, u, 0 - amount),
               Append(txs, [user_id |-> u, type |-> "payment",
                            amount |-> 0 - amount,
                            payment_id |-> Len(pays) + 1]),
               200, "ok")

\* PUT /{payment_id}/confirm
confirm_payment_result(pays, ws, txs, u, payment_id) ==
    IF payment_id \notin 1..Len(pays)
         THEN Money(pays, ws, txs, 404, "payment_not_found")
    ELSE IF pays[payment_id].user_id # u
         THEN Money(pays, ws, txs, 403, "access_denied")
    ELSE Money([pays EXCEPT ![payment_id].status = "completed"], ws, txs,
               200, "ok")

\* POST /add-funds
add_funds_result(pays, ws, txs, u, amount) ==
    Money(pays,
          IF find_wallet(ws, u) = 0 THEN Append(ws, new_wallet(u, amount))
          ELSE inc_wallet(ws, u, amount),
          Append(txs, [user_id |-> u, type |-> "credit", amount |-> amount,
                       payment_id |-> 0]),
          200, "ok")

\* GET /balance: find or create the wallet
get_wallet_balance_result(pays, ws, txs, u) ==
    Money(pays,
          IF find_wallet(ws, u) = 0 THEN Append(ws, new_wallet(u, 0)) ELSE ws,
          txs, 200, "ok")

-----------------------------------------------------------------------------
(* Finalization, documents/routes.py finalize_document *)

\* the answers the authenticity oracle check_document_authenticity(path) -> bool
\* may give for an uploaded file; the placeholder shipped answers True
OracleVerdicts == BOOLEAN

\* finalize_status_ok as in a handler without the status guard
finalize_status_any(d) == d.status \in Statuses

\* if document.get("status") != "approved": raise
finalize_status_ok(d) == d.status = "approved"

\* all_authentic as in a loop that drops the oracle's verdict
all_authentic_skipped(final_documents) ==
    \A i \in 1..Len(final_documents) : final_documents[i].authentic \in BOOLEAN

\* the upload loop: every file passes "if not is_authentic: raise"
all_authentic(final_documents) ==
    \A i \in 1..Len(final_documents) : final_documents[i].authentic

\* final_files of an upload: the stored name of every file
UploadedRefs(final_documents) ==
    [i \in 1..Len(final_documents) |-> final_documents[i].ref]

\* the update_one calls of finalize_document: the document with its final
\* files, locked, and the hash add_to_blockchain returned
finalize_update(d, final_files, block_hash) ==
    [d EXCEPT !.final_docs = final_files,
              !.ai_forgery_check = TRUE,
              !.status = "finalized",
              !.is_locked = TRUE,
              !.blockchain = TRUE,
              !.blockchain_hash = block_hash]

Final(docs, ch, code, detail, remaining) ==
    [documents |-> docs, chain |-> ch, code |-> code, detail |-> detail,
     remaining |-> remaining]

\* PATCH /{document_id}/finalize
finalize_document_result(docs, dists, pays, ch, u, document_id, final_documents) ==
    IF ~Found(docs, document_id) THEN Final(docs, ch, 404, "document_not_found", 0)
    ELSE IF docs[document_id].primary_user # u
         THEN Final(docs, ch, 403, "only_primary", 0)
    ELSE IF ~finalize_status_ok(docs[document_id])
         THEN Final(docs, ch, 400, "not_approved", 0)
    ELSE IF document_id \notin DOMAIN dists
         THEN Final(docs, ch, 400, "no_distribution", 0)
    ELSE
    LET total_amount == dists[document_id].total_amount
        paid == total_paid(dists[document_id].distributions, pays, document_id)
    IN  IF paid < total_amount
             THEN Final(docs, ch, 400, "payment_not_completed", total_amount - paid)
        ELSE IF Len(final_documents) > 0 /\ ~all_authentic(final_documents)
             THEN Final(docs, ch, 400, "forgery_check_failed", 0)
        ELSE IF Len(final_documents) = 0 /\ u \notin docs[document_id].involved_users
             THEN Final(docs, ch, 403, "access_denied", 0)
        ELSE
        LET final_files == IF Len(final_documents) > 0
                           THEN UploadedRefs(final_documents)
                           ELSE <<ComposedRef>>
            ch2 == add_to_blockchain(ch, document_id, final_files)
        IN  Final([docs EXCEPT ![document_id] =
                       finalize_update(@, final_files, ch2[Len(ch2)].hash)],
                  ch2, 200, "ok", 0)

-----------------------------------------------------------------------------
(* Requests *)

Amounts == 1..MaxAmount

\* PaymentCreate.amount, gt 0
PaymentAmounts == 1..MaxPaymentAmount

\* the amount form field of add-funds
FundAmounts == 1..MaxBalance

TotalAmounts == 1..MaxTotal

\* start_date and end_date of create: not given, or a day
Dates == {NoDate} \cup 1..MaxDay

\* PricingConfigCreate.daily_rate and PricingConfigUpdate.daily_rate, gt 0
Rates == {2, 5}

\* PaymentDistribution.percentage, ge 0 and le 100: 50.0, 50.02 and 100.0,
\* in hundredths
PctChoices == {PercentTotal \div 2, PercentTotal \div 2 + 2, PercentTotal}

\* entries of a setup-distribution payload; they name members or not
Entries == [user_id : Users, percentage : PctChoices, amount : Amounts]

RECURSIVE SeqsUpTo(_, _)
SeqsUpTo(S, n) ==
    IF n = 0 THEN {<<>>}
    ELSE LET shorter == SeqsUpTo(S, n - 1)
         IN  shorter \cup {Append(q, x) : q \in shorter, x \in S}

\* payloads of setup-distribution
EntryLists == SeqsUpTo(Entries, MaxEntries) \ {<<>>}

\* uploads of finalize: each file with the name it is stored under and the
\* oracle's verdict on it
FinalUploads ==
    SeqsUpTo([ref : FileRefs, authentic : OracleVerdicts], MaxFinalDocs)

\* what the caller of op sees
Reply(op, r) ==
    [op |-> op, code |-> r.code, detail |-> r.detail, remaining |-> 0]

-----------------------------------------------------------------------------
(* Notification connections, websocket/manager.py *)

\* the websockets the server is offered, each used for one connection
Sockets == 1..MaxSockets

\* the principals that open notification connections
Listeners == {"u1", "u2"}

\* a websocket before its endpoint call: state is "new", then "open" while
\* the endpoint sits in its receive loop, "gone" once the client has closed
\* and the endpoint has not yet seen it, "done" when the endpoint returned
Fresh == [user_id |-> "none", state |-> "new", received |-> 0]

NoSockets == [w \in Sockets |-> Fresh]

\* del d[k] on a dict
Del(f, k) == [x \in (DOMAIN f) \ {k} |-> f[x]]

\* ConnectionManager.connect: self.active_connections[user_id] = websocket
connect(connections, websocket, user_id) == Put(connections, user_id, websocket)

\* ConnectionManager.disconnect(user_id): the entry of user_id is deleted,
\* whichever websocket it holds
disconnect(connections, user_id) ==
    IF user_id \in DOMAIN connections THEN Del(connections, user_id)
    ELSE connections

-----------------------------------------------------------------------------
(* State *)

NoReply == [op |-> "none", code |-> 0, detail |-> "none", remaining |-> 0]

\* a coroutine that handles no request; the locals of one that does
Idle == [op |-> "none", pc |-> "idle", u |-> "none", amount |-> 0,
         existing |-> 0, payment_id |-> 0, user_id |-> "none",
         document |-> EmptyMap, all_approved |-> FALSE,
         final_documents |-> <<>>, final_files |-> <<>>]

NoCalls == [p \in Procs |-> Idle]

Init ==
    /\ documents = EmptyMap
    /\ payment_distributions = EmptyMap
    /\ payments = <<>>
    /\ wallets = <<>>
    /\ transactions = <<>>
    /\ chain = <<create_genesis_block>>
    /\ sealed = <<create_genesis_block>>
    /\ pricing_config = <<>>
    /\ resp = NoReply
    /\ calls = NoCalls
    /\ active_connections = EmptyMap
    /\ sockets = NoSockets

DocStep(op, r) ==
    /\ documents' = r.documents
    /\ resp' = Reply(op, r)
    /\ UNCHANGED <<payment_distributions, payments, wallets, transactions,
                   chain, sealed, pricing_config, calls, active_connections,
                   sockets>>

MoneyStep(op, r) ==
    /\ payments' = r.payments
    /\ wallets' = r.wallets
    /\ transactions' = r.transactions
    /\ resp' = Reply(op, r)
    /\ UNCHANGED <<documents, payment_distributions, chain, sealed,
                   pricing_config, calls, active_connections, sockets>>

create_document ==
    \E u \in Initiators, document_id \in DocIds \ DOMAIN documents,
       has_name \in BOOLEAN, has_raw \in BOOLEAN, verified \in BOOLEAN,
       start_date \in Dates, end_date \in Dates :
        DocStep("create",
                create_document_result(documents, pricing_config, u, document_id,
                                       has_name, has_raw, verified, start_date,
                                       end_date))

initiate_agreement ==
    \E u \in Initiators, target \in Users, document_id \in DocIds \ DOMAIN documents :
        DocStep("initiate",
                initiate_agreement_result(documents, u, document_id, target))

join_document ==
    \E u \in Users, document_id \in DocIds, verified \in BOOLEAN :
        DocStep("join", join_document_result(documents, u, document_id, verified))

approve_route ==
    \E u \in Users, document_id \in DocIds, user_id \in Users :
        DocStep("approve", approve_route_result(documents, u, document_id, user_id))

add_user_to_document ==
    \E u \in Users, document_id \in DocIds, target \in Users :
        DocStep("add", add_user_to_document_result(documents, u, document_id, target))

approve_user_join ==
    \E u \in Users, document_id \in DocIds, user_id \in Users :
        DocStep("approve_user",
                approve_user_join_result(documents, u, document_id, user_id))

remove_user_delete ==
    \E u \in Users, document_id \in DocIds, user_id \in Users :
        DocStep("remove_delete",
                remove_user_delete_result(documents, u, document_id, user_id))

invite_user_to_document ==
    \E u \in Users, document_id \in DocIds, target \in Users :
        DocStep("invite",
                invite_user_to_document_result(documents, u, document_id, target))

reject_user_join ==
    \E u \in Users, document_id \in DocIds, user_id \in Users :
        DocStep("reject", reject_user_join_result(documents, u, document_id, user_id))

remove_user_put ==
    \E u \in Users, document_id \in DocIds, user_id \in Users :
        DocStep("remove_put",
                remove_user_put_result(documents, u, document_id, user_id))

respond_to_agreement ==
    \E u \in Users, document_id \in DocIds,
       response \in {"accept", "reject", "other"}, verified \in BOOLEAN :
        DocStep("respond",
                respond_to_agreement_result(documents, u, document_id, response,
                                            verified))

setup_payment_distribution ==
    \E u \in Users, document_id \in DocIds, entries \in EntryLists,
       total_amount \in TotalAmounts :
        LET r == setup_payment_distribution_result(
                     documents, payment_distributions, u, document_id, entries,
                     total_amount)
        IN  /\ payment_distributions' = r.payment_distributions
            /\ resp' = Reply("setup_distribution", r)
            /\ UNCHANGED <<documents, payments, wallets, transactions, chain,
                           sealed, pricing_config, calls, active_connections,
                           sockets>>

make_document_payment ==
    \E u \in Users, document_id \in DocIds :
        LET r == make_document_payment_result(
                     documents, payment_distributions, payments, wallets,
                     transactions, u, document_id)
        IN  /\ Len(r.payments) <= MaxPayments
            /\ Len(r.transactions) <= MaxTx
            /\ MoneyStep("pay", r)

create_payment ==
    \E u \in Users, document_id \in DocIds, amount \in PaymentAmounts :
        LET r == create_payment_result(documents, payments, wallets,
                                       transactions, u, document_id, amount)
        IN  /\ Len(r.payments) <= MaxPayments
            /\ Len(r.transactions) <= MaxTx
            /\ MoneyStep("create_payment", r)

confirm_payment ==
    \E u \in Users, payment_id \in 1..MaxPayments :
        MoneyStep("confirm_payment",
                  confirm_payment_result(payments, wallets, transactions, u,
                                         payment_id))

add_funds ==
    \E u \in Funders, amount \in FundAmounts :
        LET r == add_funds_result(payments, wallets, transactions, u, amount)
        IN  /\ balance_of(r.wallets, u) <= MaxBalance
            /\ Len(r.transactions) <= MaxTx
            /\ MoneyStep("add_funds", r)

get_wallet_balance ==
    \E u \in Funders :
        MoneyStep("balance",
                  get_wallet_balance_result(payments, wallets, transactions, u))

finalize_document ==
    \E u \in Users, document_id \in DocIds, final_documents \in FinalUploads :
        LET r == finalize_document_result(
                     documents, payment_distributions, payments, chain, u,
                     document_id, final_documents)
        IN  /\ Len(r.chain) <= MaxChain + 1
            /\ documents' = r.documents
            /\ chain' = r.chain
            /\ sealed' = IF r.chain = chain THEN sealed
                         ELSE Append(sealed, r.chain[Len(r.chain)])
            /\ resp' = [op |-> "finalize", code |-> r.code,
                        detail |-> r.detail, remaining |-> r.remaining]
            /\ UNCHANGED <<payment_distributions, payments, wallets,
                           transactions, pricing_config, calls,
                           active_connections, sockets>>

\* the handlers that write the documents collection
Lifecycle ==
    \/ create_document
    \/ initiate_agreement
    \/ join_document
    \/ approve_route
    \/ add_user_to_document
    \/ approve_user_join
    \/ remove_user_delete
    \/ invite_user_to_document
    \/ reject_user_join
    \/ remove_user_put
    \/ respond_to_agreement
    \/ finalize_document

\* the handlers that write distributions, payments, wallets, transactions
Settlement ==
    \/ setup_payment_distribution
    \/ make_document_payment
    \/ create_payment
    \/ confirm_payment
    \/ add_funds
    \/ get_wallet_balance

\* the whole backend, from empty collections
Next == Lifecycle \/ Settlement

Spec == Init /\ [][Next]_vars

-----------------------------------------------------------------------------
(* The lifecycle on its own.  No Settlement handler writes the documents  *)
(* collection or the chain, so the lifecycle is explored with the money   *)
(* side held at a state Spec reaches: nothing stored yet, or u1 having    *)
(* funded 1, set up the distribution <<(u1, 100%, 1)>> of total 1 and     *)
(* paid it, right after opening the agreement.                            *)

\* add_funds(u1, 1); setup-distribution(u1, <<(u1, 100%, 1)>>, 1); pay(u1)
SettledByU1 ==
    /\ payment_distributions =
           Put(EmptyMap, "d1",
               [total_amount |-> 1,
                distributions |-> <<[user_id |-> "u1", percentage |-> PercentTotal,
                                     amount |-> 1]>>])
    /\ payments = <<[user_id |-> "u1", document_id |-> "d1", amount |-> 1,
                     status |-> "completed"]>>
    /\ wallets = <<new_wallet("u1", 0)>>
    /\ transactions = <<[user_id |-> "u1", type |-> "credit", amount |-> 1,
                         payment_id |-> 0],
                        [user_id |-> "u1", type |-> "payment", amount |-> 0 - 1,
                         payment_id |-> 1]>>

InitLifecycle ==
    \/ Init
    \/ /\ \/ documents = Put(EmptyMap, "d1", NewDocument("u1", DefaultRate, 1))
          \/ documents = Put(EmptyMap, "d1", InitiatedDocument("u1", "u2"))
       /\ SettledByU1
       /\ chain = <<create_genesis_block>>
       /\ sealed = <<create_genesis_block>>
       /\ pricing_config = <<>>
       /\ resp = Reply("pay", [code |-> 200, detail |-> "ok"])
       /\ calls = NoCalls
       /\ active_connections = EmptyMap
       /\ sockets = NoSockets

NextLifecycle ==
    \/ create_document
    \/ initiate_agreement
    \/ join_document
    \/ approve_route
    \/ add_user_to_document
    \/ approve_user_join
    \/ remove_user_delete
    \/ invite_user_to_document
    \/ reject_user_join
    \/ remove_user_put
    \/ respond_to_agreement
    \/ finalize_document

SpecLifecycle == InitLifecycle /\ [][NextLifecycle]_vars

-----------------------------------------------------------------------------
(* Settlement on its own.  The Settlement handlers read the agreement's    *)
(* membership and primary and write none of it, so they are explored, with *)
(* finalize, on an agreement Spec reaches by create(u1), join(u2),         *)
(* approve-user(u2): members u1 and u2, both approved, status approved.    *)

ApprovedByBoth ==
    approve_update(join_update(NewDocument("u1", DefaultRate, 1), "u2"), "u2")

InitSettlement ==
    /\ documents = Put(EmptyMap, "d1", ApprovedByBoth)
    /\ payment_distributions = EmptyMap
    /\ payments = <<>>
    /\ wallets = <<>>
    /\ transactions = <<>>
    /\ chain = <<create_genesis_block>>
    /\ sealed = <<create_genesis_block>>
    /\ pricing_config = <<>>
    /\ resp = Reply("approve_user", [code |-> 200, detail |-> "ok"])
    /\ calls = NoCalls
    /\ active_connections = EmptyMap
    /\ sockets = NoSockets

NextSettlement ==
    \/ setup_payment_distribution
    \/ make_document_payment
    \/ create_payment
    \/ confirm_payment
    \/ add_funds
    \/ get_wallet_balance
    \/ finalize_document

SpecSettlement == InitSettlement /\ [][NextSettlement]_vars

-----------------------------------------------------------------------------
(* Requests in flight.  The handlers are coroutines on one event loop: a   *)
(* handler runs alone from one await to the next, and at every await       *)
(* (every database call) another request may run.  The wallet and payment  *)
(* handlers are taken one database call at a time, on an approved          *)
(* agreement whose distribution is set and stays as it is.                 *)

InFlight(ops) == Cardinality({p \in Procs : calls[p].op \in ops})

\* a request ends: the coroutine is free again and the caller has the answer
Done(p, op, code, detail) ==
    /\ calls' = [calls EXCEPT ![p] = Idle]
    /\ resp' = [op |-> op, code |-> code, detail |-> detail, remaining |-> 0]

\* make_document_payment up to the payments lookup: the document, the
\* membership, the distribution and the caller's entry (406-454)
pay_begin(p) ==
    \E u \in Users, document_id \in DocIds :
        /\ calls[p].pc = "idle"
        /\ Len(payments) + InFlight({"pay"}) < MaxPayments
        /\ Len(transactions) + InFlight({"pay", "add_funds"}) < MaxTx
        /\ LET k == IF document_id \in DOMAIN payment_distributions
                    THEN FindOne({i \in 1..Len(payment_distributions[document_id].distributions) :
                                     payment_distributions[document_id].distributions[i].user_id = u})
                    ELSE 0
           IN  IF ~Found(documents, document_id)
                    THEN Done(p, "pay", 404, "document_not_found")
               ELSE IF u \notin documents[document_id].involved_users
                    THEN Done(p, "pay", 403, "access_denied")
               ELSE IF document_id \notin DOMAIN payment_distributions
                    THEN Done(p, "pay", 400, "no_distribution")
               ELSE IF k = 0 THEN Done(p, "pay", 400, "no_entry")
               ELSE /\ calls' = [calls EXCEPT ![p] =
                            [Idle EXCEPT !.op = "pay", !.pc = "find_payment",
                                         !.u = u,
                                         !.amount = payment_distributions[document_id]
                                                        .distributions[k].amount]]
                    /\ UNCHANGED resp
        /\ UNCHANGED <<documents, payment_distributions, payments, wallets,
                       transactions, chain, sealed, pricing_config,
                       active_connections, sockets>>

\* existing_payment = await db.payments.find_one(...) and its guard (456-466)
pay_find_payment(p) ==
    /\ calls[p].op = "pay" /\ calls[p].pc = "find_payment"
    /\ LET Mine(row) == row.document_id = "d1" /\ row.user_id = calls[p].u
           existing == FindOne({i \in 1..Len(payments) : Mine(payments[i])})
       IN  IF payment_completed(payments, existing)
           THEN Done(p, "pay", 400, "already_completed")
           ELSE /\ calls' = [calls EXCEPT ![p].pc = "find_wallet",
                                          ![p].existing = existing]
                /\ UNCHANGED resp
    /\ UNCHANGED <<documents, payment_distributions, payments, wallets,
                   transactions, chain, sealed, pricing_config,
                   active_connections, sockets>>

\* wallet = await db.wallets.find_one(...) and the balance check (474-480)
pay_find_wallet(p) ==
    /\ calls[p].op = "pay" /\ calls[p].pc = "find_wallet"
    /\ IF insufficient_balance(wallets, calls[p].u, calls[p].amount)
       THEN Done(p, "pay", 400, "insufficient_balance")
       ELSE /\ calls' = [calls EXCEPT ![p].pc = "write_payment"]
            /\ UNCHANGED resp
    /\ UNCHANGED <<documents, payment_distributions, payments, wallets,
                   transactions, chain, sealed, pricing_config,
                   active_connections, sockets>>

\* update_one by _id of the row found, or insert_one (482-505)
pay_write_payment(p) ==
    /\ calls[p].op = "pay" /\ calls[p].pc = "write_payment"
    /\ LET row == [user_id |-> calls[p].u, document_id |-> "d1",
                   amount |-> calls[p].amount, status |-> "completed"]
       IN  IF calls[p].existing # 0
           THEN /\ payments' = [payments EXCEPT ![calls[p].existing] = row]
                /\ calls' = [calls EXCEPT ![p].pc = "debit",
                                          ![p].payment_id = calls[p].existing]
           ELSE /\ payments' = Append(payments, row)
                /\ calls' = [calls EXCEPT ![p].pc = "debit",
                                          ![p].payment_id = Len(payments) + 1]
    /\ UNCHANGED <<documents, payment_distributions, wallets, transactions,
                   chain, sealed, pricing_config, resp, active_connections,
                   sockets>>

\* await db.wallets.update_one(... $inc ...) (507-514)
pay_debit(p) ==
    /\ calls[p].op = "pay" /\ calls[p].pc = "debit"
    /\ wallets' = inc_wallet(wallets, calls[p].u, 0 - calls[p].amount)
    /\ calls' = [calls EXCEPT ![p].pc = "log"]
    /\ UNCHANGED <<documents, payment_distributions, payments, transactions,
                   chain, sealed, pricing_config, resp, active_connections,
                   sockets>>

\* await db.transactions.insert_one(...) and the return (516-534)
pay_log(p) ==
    /\ calls[p].op = "pay" /\ calls[p].pc = "log"
    /\ transactions' = Append(transactions,
                              [user_id |-> calls[p].u, type |-> "payment",
                               amount |-> 0 - calls[p].amount,
                               payment_id |-> calls[p].payment_id])
    /\ Done(p, "pay", 200, "ok")
    /\ UNCHANGED <<documents, payment_distributions, payments, wallets, chain,
                   sealed, pricing_config, active_connections, sockets>>

\* the amounts of the add-funds calls in flight for u, among the coroutines ps
RECURSIVE AmountInFlight(_, _)
AmountInFlight(ps, u) ==
    IF ps = {} THEN 0
    ELSE LET p == CHOOSE q \in ps : TRUE
         IN  (IF calls[p].op = "add_funds" /\ calls[p].u = u
              THEN calls[p].amount ELSE 0)
             + AmountInFlight(ps \ {p}, u)

\* what the wallets of u and the add-funds in flight for u come to
Funded(u) == balance_of(wallets, u) + AmountInFlight(Procs, u)

\* add_funds up to its write: wallet = await db.wallets.find_one(...) (57-58);
\* existing records whether a wallet was found
add_funds_begin(p) ==
    \E u \in Funders, amount \in FundAmounts :
        /\ calls[p].pc = "idle"
        /\ Len(transactions) + InFlight({"pay", "add_funds"}) < MaxTx
        /\ Len(wallets) + InFlight({"add_funds", "balance"}) < MaxWallets
        /\ Funded(u) + amount <= MaxBalance
        /\ calls' = [calls EXCEPT ![p] =
                         [Idle EXCEPT !.op = "add_funds", !.pc = "write_wallet",
                                      !.u = u, !.amount = amount,
                                      !.existing = find_wallet(wallets, u)]]
        /\ UNCHANGED <<documents, payment_distributions, payments, wallets,
                       transactions, chain, sealed, pricing_config, resp,
                       active_connections, sockets>>

\* insert_one(new wallet holding the amount) or update_one $inc (59-70)
add_funds_write_wallet(p) ==
    /\ calls[p].op = "add_funds" /\ calls[p].pc = "write_wallet"
    /\ wallets' = IF calls[p].existing = 0
                  THEN Append(wallets, new_wallet(calls[p].u, calls[p].amount))
                  ELSE inc_wallet(wallets, calls[p].u, calls[p].amount)
    /\ calls' = [calls EXCEPT ![p].pc = "log"]
    /\ UNCHANGED <<documents, payment_distributions, payments, transactions,
                   chain, sealed, pricing_config, resp, active_connections,
                   sockets>>

\* await db.transactions.insert_one(...) and the return (72-82)
add_funds_log(p) ==
    /\ calls[p].op = "add_funds" /\ calls[p].pc = "log"
    /\ transactions' = Append(transactions,
                              [user_id |-> calls[p].u, type |-> "credit",
                               amount |-> calls[p].amount, payment_id |-> 0])
    /\ Done(p, "add_funds", 200, "ok")
    /\ UNCHANGED <<documents, payment_distributions, payments, wallets, chain,
                   sealed, pricing_config, active_connections, sockets>>

\* get_wallet_balance: wallet = await db.wallets.find_one(...) (27); a wallet
\* found is returned
balance_begin(p) ==
    \E u \in Funders :
        /\ calls[p].pc = "idle"
        /\ Len(wallets) + InFlight({"add_funds", "balance"}) < MaxWallets
        /\ IF find_wallet(wallets, u) # 0
           THEN Done(p, "balance", 200, "ok")
           ELSE /\ calls' = [calls EXCEPT ![p] =
                                 [Idle EXCEPT !.op = "balance",
                                              !.pc = "create_wallet", !.u = u]]
                /\ UNCHANGED resp
        /\ UNCHANGED <<documents, payment_distributions, payments, wallets,
                       transactions, chain, sealed, pricing_config,
                       active_connections, sockets>>

\* insert_one(WalletInDB(user_id)), then the read by _id and the return (28-42)
balance_create_wallet(p) ==
    /\ calls[p].op = "balance" /\ calls[p].pc = "create_wallet"
    /\ wallets' = Append(wallets, new_wallet(calls[p].u, 0))
    /\ Done(p, "balance", 200, "ok")
    /\ UNCHANGED <<documents, payment_distributions, payments, transactions,
                   chain, sealed, pricing_config, active_connections, sockets>>

\* setup-distribution(u1, <<(u1, 100%, 1)>>, 1) on the agreement of create(u1),
\* join(u2), approve-user(u2); nothing funded or paid yet
InitRace ==
    /\ documents = Put(EmptyMap, "d1", ApprovedByBoth)
    /\ payment_distributions =
           Put(EmptyMap, "d1",
               [total_amount |-> 1,
                distributions |-> <<[user_id |-> "u1", percentage |-> PercentTotal,
                                     amount |-> 1]>>])
    /\ payments = <<>>
    /\ wallets = <<>>
    /\ transactions = <<>>
    /\ chain = <<create_genesis_block>>
    /\ sealed = <<create_genesis_block>>
    /\ pricing_config = <<>>
    /\ resp = Reply("setup_distribution", [code |-> 200, detail |-> "ok"])
    /\ calls = NoCalls
    /\ active_connections = EmptyMap
    /\ sockets = NoSockets

NextRace ==
    \E p \in Procs :
        \/ pay_begin(p)
        \/ pay_find_payment(p)
        \/ pay_find_wallet(p)
        \/ pay_write_payment(p)
        \/ pay_debit(p)
        \/ pay_log(p)
        \/ add_funds_begin(p)
        \/ add_funds_write_wallet(p)
        \/ add_funds_log(p)
        \/ balance_begin(p)
        \/ balance_create_wallet(p)

SpecRace == InitRace /\ [][NextRace]_vars

-----------------------------------------------------------------------------
(* Approvals in flight.  PUT /approve-user is taken one database call at a *)
(* time, called by the primary for any principal, on an agreement that u2  *)
(* has joined, or u2 and u3 have joined, after create(u1).                 *)

ApproveStep ==
    UNCHANGED <<payment_distributions, payments, wallets, transactions, chain,
                sealed, pricing_config, active_connections, sockets>>

\* approve_user_join up to its first write: find_one and the guards (562-597)
approve_user_find(p) ==
    \E u \in Initiators, document_id \in DocIds, user_id \in Users :
        /\ calls[p].pc = "idle"
        /\ IF ~Found(documents, document_id)
                THEN Done(p, "approve_user", 404, "document_not_found")
           ELSE IF IsFinalized(documents[document_id])
                THEN Done(p, "approve_user", 400, "document_finalized")
           ELSE IF documents[document_id].primary_user # u
                THEN Done(p, "approve_user", 403, "only_primary")
           ELSE IF user_id \notin documents[document_id].involved_users
                THEN Done(p, "approve_user", 400, "not_member")
           ELSE /\ calls' = [calls EXCEPT ![p] =
                                 [Idle EXCEPT !.op = "approve_user", !.pc = "set",
                                              !.u = u, !.user_id = user_id,
                                              !.document = documents[document_id]]]
                /\ UNCHANGED resp
        /\ UNCHANGED documents
        /\ ApproveStep

\* await update_one($set user_approvals.<user_id>.approved) (599-609)
approve_user_set(p) ==
    /\ calls[p].op = "approve_user" /\ calls[p].pc = "set"
    /\ documents' = [documents EXCEPT !["d1"] =
                         set_approval(@, calls[p].document, calls[p].user_id)]
    /\ calls' = [calls EXCEPT ![p].pc = "read"]
    /\ UNCHANGED resp
    /\ ApproveStep

\* updated_document = await find_one(...) and all_approved (611-618)
approve_user_read(p) ==
    /\ calls[p].op = "approve_user" /\ calls[p].pc = "read"
    /\ calls' = [calls EXCEPT ![p].pc = "status",
                              ![p].all_approved =
                                  all_approved(documents["d1"].user_approvals)]
    /\ UNCHANGED <<documents, resp>>
    /\ ApproveStep

\* if all_approved: await update_one($set status approved); the return
\* (620-643)
approve_user_status(p) ==
    /\ calls[p].op = "approve_user" /\ calls[p].pc = "status"
    /\ documents' = IF calls[p].all_approved
                    THEN [documents EXCEPT !["d1"].status = "approved"]
                    ELSE documents
    /\ Done(p, "approve_user", 200, "ok")
    /\ ApproveStep

\* create(u1) and join(u2)
JoinedByOne == join_update(NewDocument("u1", DefaultRate, 1), "u2")

\* create(u1), join(u2) and join(u3)
JoinedByBoth == join_update(JoinedByOne, "u3")

InitApprove ==
    /\ documents \in {Put(EmptyMap, "d1", JoinedByOne),
                       Put(EmptyMap, "d1", JoinedByBoth)}
    /\ payment_distributions = EmptyMap
    /\ payments = <<>>
    /\ wallets = <<>>
    /\ transactions = <<>>
    /\ chain = <<create_genesis_block>>
    /\ sealed = <<create_genesis_block>>
    /\ pricing_config = <<>>
    /\ resp = Reply("join", [code |-> 200, detail |-> "ok"])
    /\ calls = NoCalls
    /\ active_connections = EmptyMap
    /\ sockets = NoSockets

NextApprove ==
    \E p \in Procs :
        \/ approve_user_find(p)
        \/ approve_user_set(p)
        \/ approve_user_read(p)
        \/ approve_user_status(p)

SpecApprove == InitApprove /\ [][NextApprove]_vars

-----------------------------------------------------------------------------
(* Finalize in flight.  finalize_document is taken one stage at a time,    *)
(* each stage ending at an await, next to the join, approve-user, remove   *)
(* and setup-distribution handlers, on the approved agreement of u1 and    *)
(* u2 that u1 has settled.  FinalizeStep leaves the money side alone.      *)

FinalizeStep ==
    UNCHANGED <<payment_distributions, payments, wallets, transactions,
                pricing_config, active_connections, sockets>>

\* finalize_document up to the distribution lookup: find_one and the primary
\* and status guards (1254-1303)
finalize_find(p) ==
    \E u \in Users, document_id \in DocIds, final_documents \in FinalUploads :
        /\ calls[p].pc = "idle"
        /\ Len(chain) + InFlight({"finalize"}) <= MaxChain
        /\ IF ~Found(documents, document_id)
                THEN Done(p, "finalize", 404, "document_not_found")
           ELSE IF documents[document_id].primary_user # u
                THEN Done(p, "finalize", 403, "only_primary")
           ELSE IF ~finalize_status_ok(documents[document_id])
                THEN Done(p, "finalize", 400, "not_approved")
           ELSE /\ calls' = [calls EXCEPT ![p] =
                                 [Idle EXCEPT !.op = "finalize", !.pc = "payments",
                                              !.u = u,
                                              !.final_documents = final_documents]]
                /\ UNCHANGED resp
        /\ UNCHANGED <<documents, chain, sealed>>
        /\ FinalizeStep

\* the distribution lookup and the loop over the completed payments
\* (1305-1335)
finalize_payments(p) ==
    /\ calls[p].op = "finalize" /\ calls[p].pc = "payments"
    /\ IF "d1" \notin DOMAIN payment_distributions
           THEN Done(p, "finalize", 400, "no_distribution")
       ELSE LET total_amount == payment_distributions["d1"].total_amount
                paid == total_paid(payment_distributions["d1"].distributions,
                                   payments, "d1")
            IN  IF paid < total_amount
                THEN /\ calls' = [calls EXCEPT ![p] = Idle]
                     /\ resp' = [op |-> "finalize", code |-> 400,
                                 detail |-> "payment_not_completed",
                                 remaining |-> total_amount - paid]
                ELSE /\ calls' = [calls EXCEPT ![p].pc = "files"]
                     /\ UNCHANGED resp
    /\ UNCHANGED <<documents, chain, sealed>>
    /\ FinalizeStep

\* the uploads are stored and checked, or the composed pdf is generated by
\* get_final_document_pdf, which reads the document again and asks for the
\* caller to be a member (1337-1381)
finalize_files(p) ==
    /\ calls[p].op = "finalize" /\ calls[p].pc = "files"
    /\ LET final_documents == calls[p].final_documents
       IN  IF Len(final_documents) > 0 /\ ~all_authentic(final_documents)
                THEN Done(p, "finalize", 400, "forgery_check_failed")
           ELSE IF Len(final_documents) = 0
                   /\ calls[p].u \notin documents["d1"].involved_users
                THEN Done(p, "finalize", 403, "access_denied")
           ELSE /\ calls' = [calls EXCEPT
                                 ![p].pc = "write",
                                 ![p].final_files =
                                     IF Len(final_documents) > 0
                                     THEN UploadedRefs(final_documents)
                                     ELSE <<ComposedRef>>]
                /\ UNCHANGED resp
    /\ UNCHANGED <<documents, chain, sealed>>
    /\ FinalizeStep

\* await update_one({"_id": ...}, {"$set": {final_docs, ai_forgery_check,
\* status finalized, is_locked}}): the filter is the _id alone (1383-1398)
finalize_write(p) ==
    /\ calls[p].op = "finalize" /\ calls[p].pc = "write"
    /\ documents' = [documents EXCEPT
                         !["d1"].final_docs = calls[p].final_files,
                         !["d1"].ai_forgery_check = TRUE,
                         !["d1"].status = "finalized",
                         !["d1"].is_locked = TRUE]
    /\ calls' = [calls EXCEPT ![p].pc = "chain"]
    /\ UNCHANGED <<chain, sealed, resp>>
    /\ FinalizeStep

\* add_to_blockchain, the second update_one and the return (1400-1407)
finalize_chain(p) ==
    /\ calls[p].op = "finalize" /\ calls[p].pc = "chain"
    /\ chain' = add_to_blockchain(chain, "d1", calls[p].final_files)
    /\ sealed' = Append(sealed, chain'[Len(chain')])
    /\ documents' = [documents EXCEPT
                         !["d1"].blockchain = TRUE,
                         !["d1"].blockchain_hash = chain'[Len(chain')].hash]
    /\ Done(p, "finalize", 200, "ok")
    /\ FinalizeStep

\* setup-distribution called again for an agreement that has a distribution,
\* with the entries it holds and a total_amount of the caller's choice
setup_payment_distribution_again ==
    \E u \in Users, document_id \in DOMAIN payment_distributions,
       total_amount \in TotalAmounts :
        LET r == setup_payment_distribution_result(
                     documents, payment_distributions, u, document_id,
                     payment_distributions[document_id].distributions,
                     total_amount)
        IN  /\ payment_distributions' = r.payment_distributions
            /\ resp' = Reply("setup_distribution", r)
            /\ UNCHANGED <<documents, payments, wallets, transactions, chain,
                           sealed, pricing_config, calls, active_connections,
                           sockets>>

\* create(u1), join(u2), approve-user(u2), add_funds(u1, 1),
\* setup-distribution(u1, <<(u1, 100%, 1)>>, 1), pay(u1)
InitFinalize ==
    /\ documents = Put(EmptyMap, "d1", ApprovedByBoth)
    /\ SettledByU1
    /\ chain = <<create_genesis_block>>
    /\ sealed = <<create_genesis_block>>
    /\ pricing_config = <<>>
    /\ resp = Reply("pay", [code |-> 200, detail |-> "ok"])
    /\ calls = NoCalls
    /\ active_connections = EmptyMap
    /\ sockets = NoSockets

NextFinalize ==
    \/ \E p \in Procs :
           \/ finalize_find(p)
           \/ finalize_payments(p)
           \/ finalize_files(p)
           \/ finalize_write(p)
           \/ finalize_chain(p)
    \/ join_document
    \/ approve_user_join
    \/ remove_user_delete
    \/ setup_payment_distribution_again

SpecFinalize == InitFinalize /\ [][NextFinalize]_vars

-----------------------------------------------------------------------------
(* Pricing.  create_pricing_config and update_pricing_config are taken one *)
(* database call at a time, next to create_document, which reads the       *)
(* active rate once.                                                       *)

\* update_many({"is_active": True}, {"$set": {"is_active": False}})
deactivate_all(pricing) ==
    [i \in 1..Len(pricing) |-> [pricing[i] EXCEPT !.is_active = FALSE]]

\* new_pricing of create_pricing_config
new_pricing(daily_rate) == [daily_rate |-> daily_rate, is_active |-> TRUE]

PricingStep ==
    UNCHANGED <<documents, payment_distributions, payments, wallets,
                transactions, chain, sealed, active_connections, sockets>>

\* create_pricing_config up to its insert: await update_many(...) (1090-1093)
create_pricing_deactivate(p) ==
    \E daily_rate \in Rates :
        /\ calls[p].pc = "idle"
        /\ Len(pricing_config) + InFlight({"create_pricing"}) < MaxPricing
        /\ pricing_config' = deactivate_all(pricing_config)
        /\ calls' = [calls EXCEPT ![p] =
                         [Idle EXCEPT !.op = "create_pricing", !.pc = "insert",
                                      !.amount = daily_rate]]
        /\ UNCHANGED resp
        /\ PricingStep

\* await insert_one(new_pricing) and the return (1096-1111)
create_pricing_insert(p) ==
    /\ calls[p].op = "create_pricing" /\ calls[p].pc = "insert"
    /\ pricing_config' = Append(pricing_config, new_pricing(calls[p].amount))
    /\ Done(p, "create_pricing", 200, "ok")
    /\ PricingStep

\* update_pricing_config up to its write: await find_one({"is_active": True})
\* (1129); the HTTPException(404) raised inside the try is caught by
\* except Exception and answered as 500 (1131-1159)
update_pricing_find(p) ==
    \E daily_rate \in Rates :
        /\ calls[p].pc = "idle"
        /\ LET found == FindOne({i \in 1..Len(pricing_config) :
                                     pricing_config[i].is_active})
           IN  IF found = 0
               THEN Done(p, "update_pricing", 500, "failed")
               ELSE /\ calls' = [calls EXCEPT ![p] =
                                     [Idle EXCEPT !.op = "update_pricing",
                                                  !.pc = "write",
                                                  !.amount = daily_rate,
                                                  !.existing = found]]
                    /\ UNCHANGED resp
        /\ UNCHANGED pricing_config
        /\ PricingStep

\* await update_one({"_id": current_pricing["_id"]}, {"$set": {"daily_rate":
\* ...}}) and the return (1138-1152)
update_pricing_write(p) ==
    /\ calls[p].op = "update_pricing" /\ calls[p].pc = "write"
    /\ pricing_config' =
           [pricing_config EXCEPT ![calls[p].existing].daily_rate = calls[p].amount]
    /\ Done(p, "update_pricing", 200, "ok")
    /\ PricingStep

NextPricing ==
    \/ \E p \in Procs :
           \/ create_pricing_deactivate(p)
           \/ create_pricing_insert(p)
           \/ update_pricing_find(p)
           \/ update_pricing_write(p)
    \/ create_document

SpecPricing == Init /\ [][NextPricing]_vars

-----------------------------------------------------------------------------
(* The hash chain on its own: blockchain.chain is a list of dicts held by  *)
(* the module-level instance, appended to by add_to_blockchain and open to *)
(* every writer in the process.  sealed keeps each block as add_block      *)
(* appended it.                                                            *)

\* the file lists add_to_blockchain is called with
ChainFiles == {<<f>> : f \in FileRefs \cup {ComposedRef}}

\* the data of the blocks add_to_blockchain builds
ChainData ==
    {[document_id |-> d, files |-> fs, type |-> "document_finalization"] :
         d \in DocIds, fs \in ChainFiles}

\* the block without its "hash" key, as add_block digests it
Unhashed(b) ==
    [index |-> b.index, data |-> b.data, previous_hash |-> b.previous_hash]

ChainStep(op, detail) ==
    /\ resp' = [op |-> op, code |-> 200, detail |-> detail, remaining |-> 0]
    /\ UNCHANGED <<documents, payment_distributions, payments, wallets,
                   transactions, pricing_config, calls, active_connections,
                   sockets>>

\* await add_to_blockchain(document_id, file_paths)
chain_add ==
    \E document_id \in DocIds, file_paths \in ChainFiles :
        /\ Len(chain) <= MaxChain
        /\ chain' = add_to_blockchain(chain, document_id, file_paths)
        /\ sealed' = Append(sealed, chain'[Len(chain')])
        /\ ChainStep("chain_add", "ok")

\* blockchain.chain[i]["data"] = data, written from outside add_block
tamper_data ==
    \E i \in 2..Len(chain), data \in ChainData :
        /\ data # chain[i].data
        /\ chain' = [chain EXCEPT ![i].data = data]
        /\ UNCHANGED sealed
        /\ ChainStep("tamper_data", "ok")

\* blockchain.chain[i]["previous_hash"] = h, written from outside add_block:
\* "0" or the hash now stored in the block before
tamper_previous_hash ==
    \E i \in 2..Len(chain) : \E h \in {ZeroHash, chain[i - 1].hash} :
        /\ h # chain[i].previous_hash
        /\ chain' = [chain EXCEPT ![i].previous_hash = h]
        /\ UNCHANGED sealed
        /\ ChainStep("tamper_previous_hash", "ok")

\* blockchain.chain[i]["hash"] = h, written from outside add_block: "0" or
\* the digest add_block would store for the block as it now reads
tamper_hash ==
    \E i \in 1..Len(chain) :
      \E h \in {ZeroHash, calculate_hash(Unhashed(chain[i]))} :
        /\ h # chain[i].hash
        /\ chain' = [chain EXCEPT ![i].hash = h]
        /\ UNCHANGED sealed
        /\ ChainStep("tamper_hash", "ok")

\* await verify_blockchain_integrity()
verify_chain ==
    /\ UNCHANGED <<chain, sealed>>
    /\ ChainStep("verify",
                 IF verify_blockchain_integrity(chain) THEN "true" ELSE "false")

NextChain ==
    \/ chain_add
    \/ tamper_data
    \/ tamper_previous_hash
    \/ tamper_hash
    \/ verify_chain

SpecChain == Init /\ [][NextChain]_vars

-----------------------------------------------------------------------------
(* The notification registry on its own: websocket_endpoint runs once per  *)
(* websocket, and send_personal_message is called by the messaging routes. *)

NotifyStep ==
    UNCHANGED <<documents, payment_distributions, payments, wallets,
                transactions, chain, sealed, pricing_config, calls>>

\* websocket_endpoint up to its receive loop: the token names user_id, the
\* user is found, connect() accepts and registers the websocket (39-46)
websocket_connect ==
    \E w \in Sockets, user_id \in Listeners :
        /\ sockets[w].state = "new"
        /\ sockets' = [sockets EXCEPT ![w].user_id = user_id, ![w].state = "open"]
        /\ active_connections' = connect(active_connections, w, user_id)
        /\ UNCHANGED resp
        /\ NotifyStep

\* the client of an open websocket goes away while its endpoint waits in
\* receive_text (50)
websocket_close ==
    \E w \in Sockets :
        /\ sockets[w].state = "open"
        /\ sockets' = [sockets EXCEPT ![w].state = "gone"]
        /\ UNCHANGED <<active_connections, resp>>
        /\ NotifyStep

\* receive_text raises WebSocketDisconnect in the endpoint of w, which calls
\* connection_manager.disconnect(user_id) and returns (57-58)
websocket_disconnected ==
    \E w \in Sockets :
        /\ sockets[w].state = "gone"
        /\ sockets' = [sockets EXCEPT ![w].state = "done"]
        /\ active_connections' = disconnect(active_connections, sockets[w].user_id)
        /\ UNCHANGED resp
        /\ NotifyStep

\* send_personal_message(message, user_id).  send_text on a websocket whose
\* client is gone either raises, and the entry is removed, or returns.
send_personal_message ==
    \E user_id \in Listeners :
        /\ IF user_id \notin DOMAIN active_connections
           THEN /\ UNCHANGED <<active_connections, sockets>>
                /\ resp' = [op |-> "push", code |-> 200, detail |-> "dropped",
                            remaining |-> 0]
           ELSE LET w == active_connections[user_id]
                IN  IF sockets[w].state = "open"
                    THEN /\ sockets[w].received < MaxReceived
                         /\ sockets' = [sockets EXCEPT ![w].received = @ + 1]
                         /\ UNCHANGED active_connections
                         /\ resp' = [op |-> "push", code |-> 200,
                                     detail |-> "sent", remaining |-> 0]
                    ELSE \/ /\ active_connections' =
                                   disconnect(active_connections, user_id)
                            /\ UNCHANGED sockets
                            /\ resp' = [op |-> "push", code |-> 200,
                                        detail |-> "send_failed", remaining |-> 0]
                         \/ /\ UNCHANGED <<active_connections, sockets>>
                            /\ resp' = [op |-> "push", code |-> 200,
                                        detail |-> "sent_to_closed",
                                        remaining |-> 0]
        /\ NotifyStep

NextNotify ==
    \/ websocket_connect
    \/ websocket_close
    \/ websocket_disconnected
    \/ send_personal_message

SpecNotify == Init /\ [][NextNotify]_vars

-----------------------------------------------------------------------------
(* Distribution and membership together: setup-distribution and pay next   *)
(* to the handlers that take members in and out, on the agreement of       *)
(* create(u1), join(u2), approve-user(u2) after                            *)
(* setup-distribution(u1, <<(u1, 50%, 1), (u2, 50%, 1)>>, 2).              *)

SplitInHalves ==
    [total_amount |-> 2,
     distributions |-> <<[user_id |-> "u1", percentage |-> PercentTotal \div 2,
                          amount |-> 1],
                         [user_id |-> "u2", percentage |-> PercentTotal \div 2,
                          amount |-> 1]>>]

InitMembers ==
    /\ documents = Put(EmptyMap, "d1", ApprovedByBoth)
    /\ payment_distributions = Put(EmptyMap, "d1", SplitInHalves)
    /\ payments = <<>>
    /\ wallets = <<>>
    /\ transactions = <<>>
    /\ chain = <<create_genesis_block>>
    /\ sealed = <<create_genesis_block>>
    /\ pricing_config = <<>>
    /\ resp = Reply("setup_distribution", [code |-> 200, detail |-> "ok"])
    /\ calls = NoCalls
    /\ active_connections = EmptyMap
    /\ sockets = NoSockets

NextMembers ==
    \/ setup_payment_distribution_again
    \/ make_document_payment
    \/ add_funds
    \/ join_document
    \/ remove_user_delete
    \/ remove_user_put
    \/ reject_user_join

SpecMembers == InitMembers /\ [][NextMembers]_vars

-----------------------------------------------------------------------------
(* Properties *)

Locked(d) == d \in DOMAIN documents /\ documents[d].is_locked

RECURSIVE SumOfCompletedPayments(_, _)
SumOfCompletedPayments(pays, document_id) ==
    IF pays = <<>> THEN 0
    ELSE (IF Head(pays).document_id = document_id /\ Head(pays).status = "completed"
          THEN Head(pays).amount ELSE 0)
         + SumOfCompletedPayments(Tail(pays), document_id)

\* C1: a finalize call moves an agreement to finalized only if a distribution
\* exists for it and the sum of its completed payments is at least the
\* distribution's total_amount; a finalize that finds total_paid below
\* total_amount fails, reports total_amount - total_paid, and leaves the
\* agreement (status approved, lock, final documents) as it was.
C1_FinalizeOnlyWhenSettled ==
    [][resp'.op = "finalize" =>
        \A d \in DOMAIN documents :
            /\ (documents[d].status # "finalized" /\ documents'[d].status = "finalized")
                   => /\ d \in DOMAIN payment_distributions
                      /\ SumOfCompletedPayments(payments, d)
                             >= payment_distributions[d].total_amount
            /\ resp'.detail = "payment_not_completed"
                   => /\ resp'.code # 200
                      /\ resp'.remaining =
                             payment_distributions[d].total_amount
                             - total_paid(payment_distributions[d].distributions,
                                          payments, d)
                      /\ resp'.remaining > 0
                      /\ documents[d].status = "approved"
                      /\ documents'[d] = documents[d]]_vars

\* C2: once an agreement is locked, every later add, remove, approve, reject
\* or finalize call fails and leaves the agreement unchanged.
C2_LockedRejectsMutation ==
    [][(\E d \in DOMAIN documents : documents[d].is_locked)
       /\ resp'.op \in {"add", "remove_delete", "remove_put", "approve",
                        "approve_user", "reject", "finalize"}
       => resp'.code # 200 /\ documents' = documents]_vars

\* C3: an approve call turns the status to approved only when every member of
\* involved_users then shows approved = true; otherwise the status stays as
\* it was.
C3_ApprovedOnlyWhenAllApproved ==
    [][resp'.op \in {"approve", "approve_user"} =>
        \A d \in DOMAIN documents :
            (documents[d].status # "approved" /\ documents'[d].status = "approved")
                => \A m \in documents'[d].involved_users :
                       /\ m \in DOMAIN documents'[d].user_approvals
                       /\ documents'[d].user_approvals[m]]_vars

\* C4: the primary is a member of involved_users in every reachable state.
C4_PrimaryIsMember ==
    \A d \in DOMAIN documents :
        documents[d].primary_user \in documents[d].involved_users

\* C5: a join or invite on a finalized agreement fails and changes nothing.
C5_FinalizedRejectsJoinInvite ==
    [][(\E d \in DOMAIN documents : documents[d].status = "finalized")
       /\ resp'.op \in {"join", "invite"}
       => resp'.code # 200 /\ documents' = documents]_vars

\* C6: after the first successful finalize no operation changes final_docs.
C6_FinalDocsImmutable ==
    [][\A d \in DOMAIN documents :
           documents[d].is_locked
               => documents'[d].final_docs = documents[d].final_docs]_vars

\* C7: only a successful finalize sets the lock, and the lock, once set, is
\* never cleared.
C7_LockOnlyByFinalizeNeverCleared ==
    [][\A d \in DOMAIN documents' :
           IF d \in DOMAIN documents
           THEN /\ documents[d].is_locked => documents'[d].is_locked
                /\ (~documents[d].is_locked /\ documents'[d].is_locked)
                       => resp'.op = "finalize" /\ resp'.code = 200
           ELSE ~documents'[d].is_locked]_vars

\* C7 witness: a locked agreement that a later join went through on.
C7_Witness ==
    /\ Locked("d1")
    /\ documents["d1"].status = "pending_approval"
    /\ resp.op = "join" /\ resp.code = 200

\* C8: finalize succeeds only for the primary on an agreement in status
\* approved; on an agreement in any other status it fails and leaves the
\* agreement and the chain unchanged.
C8_FinalizeNeedsPrimaryAndApproved ==
    \A d \in DOMAIN documents, u \in Users, final_documents \in FinalUploads :
        LET r == finalize_document_result(documents, payment_distributions,
                                          payments, chain, u, d, final_documents)
        IN  /\ r.code = 200
                => u = documents[d].primary_user /\ documents[d].status = "approved"
            /\ documents[d].status # "approved"
                => r.code # 200 /\ r.documents = documents /\ r.chain = chain

\* C8 witness: the primary's finalize has just failed on a settled agreement
\* that is not in status approved.
C8_Witness ==
    /\ "d1" \in DOMAIN documents
    /\ documents["d1"].status \in Statuses \ {"approved"}
    /\ check_all_payments_completed(payment_distributions, payments, "d1")
    /\ resp.op = "finalize" /\ resp.detail = "not_approved"

\* C9: a finalize whose upload holds a file the authenticity check fails
\* aborts: the agreement, its lock and final documents, and the chain stay
\* as they were.
C9_ForgeryAbortsFinalize ==
    \A d \in DOMAIN documents, u \in Users, final_documents \in FinalUploads :
        LET r == finalize_document_result(documents, payment_distributions,
                                          payments, chain, u, d, final_documents)
        IN  (\E i \in 1..Len(final_documents) : ~final_documents[i].authentic)
                => r.code # 200 /\ r.documents = documents /\ r.chain = chain

\* C9 witness: finalize has just failed on the forgery check, on an approved,
\* settled, unlocked agreement, and nothing was appended to the chain.
C9_Witness ==
    /\ "d1" \in DOMAIN documents
    /\ documents["d1"].status = "approved"
    /\ ~documents["d1"].is_locked
    /\ documents["d1"].final_docs = <<>>
    /\ Len(chain) = 1
    /\ resp.op = "finalize" /\ resp.detail = "forgery_check_failed"

\* C10: once the status is rejected no operation changes it.
C10_RejectedIsTerminal ==
    [][\A d \in DOMAIN documents :
           documents[d].status = "rejected"
               => documents'[d].status = "rejected"]_vars

\* what a documents handler answers a caller who is not the primary: the
\* handlers with the finalized guard in front of the primary check answer a
\* finalized or locked agreement with that guard's error
RefusedCaller(r, guarded, d) ==
    /\ r.documents = documents
    /\ IF guarded /\ IsFinalized(documents[d])
       THEN r.code = 400 /\ r.detail = "document_finalized"
       ELSE r.code = 403 /\ r.detail = "only_primary"

\* C11 as stated: every primary-only action attempted by a non-primary fails
\* with Forbidden (403) and leaves the agreement unchanged.
C11_NonPrimaryGetsForbidden ==
    \A d \in DOMAIN documents, x \in Users :
      \A u \in Users \ {documents[d].primary_user} :
        \A r \in {add_user_to_document_result(documents, u, d, x),
                  invite_user_to_document_result(documents, u, d, x),
                  approve_route_result(documents, u, d, x),
                  approve_user_join_result(documents, u, d, x),
                  reject_user_join_result(documents, u, d, x),
                  remove_user_delete_result(documents, u, d, x),
                  remove_user_put_result(documents, u, d, x)} :
            r.code = 403 /\ r.documents = documents

\* C11: every primary-only action (add, invite, approve, reject, remove,
\* finalize, setup-distribution) attempted on an agreement by a principal who
\* is not its primary fails and writes nothing: documents, the distribution
\* and the chain are returned as they were.  The failure is Forbidden (403),
\* except that add-user, approve-user and DELETE remove-user answer a
\* finalized or locked agreement with their finalized error (400) first.
C11_NonPrimaryRefused ==
    \A d \in DOMAIN documents :
      \A u \in Users \ {documents[d].primary_user} :
        /\ \A x \in Users :
           /\ RefusedCaller(add_user_to_document_result(documents, u, d, x), TRUE, d)
           /\ RefusedCaller(approve_user_join_result(documents, u, d, x), TRUE, d)
           /\ RefusedCaller(remove_user_delete_result(documents, u, d, x), TRUE, d)
           /\ RefusedCaller(invite_user_to_document_result(documents, u, d, x), FALSE, d)
           /\ RefusedCaller(approve_route_result(documents, u, d, x), FALSE, d)
           /\ RefusedCaller(reject_user_join_result(documents, u, d, x), FALSE, d)
           /\ RefusedCaller(remove_user_put_result(documents, u, d, x), FALSE, d)
        /\ \A final_documents \in FinalUploads :
               LET r == finalize_document_result(
                            documents, payment_distributions, payments, chain,
                            u, d, final_documents)
               IN  r.code = 403 /\ r.documents = documents /\ r.chain = chain
        /\ \A entries \in EntryLists, total_amount \in TotalAmounts :
               LET r == setup_payment_distribution_result(
                            documents, payment_distributions, u, d, entries,
                            total_amount)
               IN  r.code = 403 /\ r.payment_distributions = payment_distributions

\* C11 witness: a non-primary's add on a finalized agreement has just been
\* answered with the finalized error, the agreement still holding a
\* non-primary member.
C11_Witness ==
    /\ "d1" \in DOMAIN documents
    /\ IsFinalized(documents["d1"])
    /\ documents["d1"].involved_users # {documents["d1"].primary_user}
    /\ resp.op = "add" /\ resp.detail = "document_finalized"

\* the payment row pay looks up for (document_id, u) exists and is completed
HasPaid(pays, document_id, u) ==
    LET Mine(p) == p.document_id = document_id /\ p.user_id = u
        i == FindOne({j \in 1..Len(pays) : Mine(pays[j])})
    IN  i # 0 /\ pays[i].status = "completed"

\* the principal's first entry in the agreement's distribution, 0 if none
EntryOf(dists, document_id, u) ==
    IF document_id \notin DOMAIN dists THEN 0
    ELSE FindOne({i \in 1..Len(dists[document_id].distributions) :
                     dists[document_id].distributions[i].user_id = u})

C14_InsufficientFundsRefused ==
    \A d \in DOMAIN documents :
      \A u \in documents[d].involved_users :
        (EntryOf(payment_distributions, d, u) # 0 /\ ~HasPaid(payments, d, u))
        => LET amount == payment_distributions[d].distributions[
                             EntryOf(payment_distributions, d, u)].amount
               r == make_document_payment_result(
                        documents, payment_distributions, payments, wallets,
                        transactions, u, d)
           IN  IF find_wallet(wallets, u) = 0 \/ balance_of(wallets, u) < amount
               THEN /\ r.code = 400 /\ r.detail = "insufficient_balance"
                    /\ r.required = amount
                    /\ r.available = balance_of(wallets, u)
                    /\ r.payments = payments
                    /\ r.wallets = wallets
                    /\ r.transactions = transactions
               ELSE r.code = 200

\* C14 witness: pay has just failed for lack of funds while the caller's
\* wallet exists, holds less than the entry amount, and nothing is paid.
C14_Witness ==
    /\ resp.op = "pay" /\ resp.detail = "insufficient_balance"
    /\ EntryOf(payment_distributions, "d1", "u1") # 0
    /\ EntryOf(payment_distributions, "d1", "u2") = 0
    /\ find_wallet(wallets, "u1") # 0
    /\ balance_of(wallets, "u1") = 0
    /\ payments = <<>>

\* C15: a successful pay takes exactly the amount of the caller's entry in
\* the current distribution from the caller's wallet and from no other,
\* leaves the caller's payment row for the agreement completed with that
\* amount and every other row as it was, and appends exactly one transaction,
\* of minus that amount, that references that row.
C15_PayDebitsEntryAmount ==
    \A d \in DocIds, u \in Users :
        LET r == make_document_payment_result(
                     documents, payment_distributions, payments, wallets,
                     transactions, u, d)
        IN  r.code = 200 =>
            LET amount == payment_distributions[d].distributions[
                              EntryOf(payment_distributions, d, u)].amount
                Mine(p) == p.document_id = d /\ p.user_id = u
                row == FindOne({j \in 1..Len(r.payments) : Mine(r.payments[j])})
            IN  /\ EntryOf(payment_distributions, d, u) # 0
                /\ balance_of(r.wallets, u) = balance_of(wallets, u) - amount
                /\ Len(r.wallets) = Len(wallets)
                /\ \A i \in 1..Len(wallets) :
                       i # find_wallet(wallets, u) => r.wallets[i] = wallets[i]
                /\ row # 0
                /\ r.payments[row].status = "completed"
                /\ r.payments[row].amount = amount
                /\ Len(r.payments) \in {Len(payments), Len(payments) + 1}
                /\ \A i \in 1..Len(payments) :
                       i # row => r.payments[i] = payments[i]
                /\ r.transactions =
                       Append(transactions,
                              [user_id |-> u, type |-> "payment",
                               amount |-> 0 - amount, payment_id |-> row])

\* C15 witness: a pay has just succeeded on a row that create_payment had
\* opened with amount 2: the row is completed with the entry amount 1, and
\* the log ends with the debit of 1 that references it.
C15_Witness ==
    /\ resp.op = "pay" /\ resp.code = 200
    /\ Len(payments) = 1
    /\ payments[1].status = "completed" /\ payments[1].amount = 1
    /\ Len(transactions) = 3
    /\ transactions[2].amount = 0 - 2 /\ transactions[2].payment_id = 1
    /\ transactions[3].amount = 0 - 1 /\ transactions[3].payment_id = 1
    /\ balance_of(wallets, "u1") = 0

\* C16: check_all_payments_completed holds exactly when a distribution
\* exists and the sum of the amounts of all completed payments of the
\* agreement is at least its total_amount.
C16_FullyPaidIsSumOfCompleted ==
    \A d \in DocIds :
        check_all_payments_completed(payment_distributions, payments, d)
        <=> /\ d \in DOMAIN payment_distributions
            /\ SumOfCompletedPayments(payments, d)
                   >= payment_distributions[d].total_amount

\* every principal listed in the distribution has a completed payment of at
\* least the entry amount
EveryEntryPaid(dists, pays, d) ==
    \A i \in 1..Len(dists[d].distributions) :
        \E j \in 1..Len(pays) :
            /\ pays[j].document_id = d
            /\ pays[j].user_id = dists[d].distributions[i].user_id
            /\ pays[j].status = "completed"
            /\ pays[j].amount >= dists[d].distributions[i].amount

\* C17: for an agreement with a distribution, check_all_payments_completed
\* holds exactly when every listed principal has a completed payment of at
\* least the entry amount.
C17_FullyPaidIsEveryEntryPaid ==
    \A d \in DOMAIN payment_distributions :
        check_all_payments_completed(payment_distributions, payments, d)
        <=> EveryEntryPaid(payment_distributions, payments, d)

\* C18: while the distribution is not replaced, check_all_payments_completed,
\* once true, stays true.
C18_FullyPaidIsMonotonic ==
    [][\A d \in DocIds :
           (/\ payment_distributions' = payment_distributions
            /\ check_all_payments_completed(payment_distributions, payments, d))
           => check_all_payments_completed(payment_distributions', payments', d)]_vars

\* no request is being handled
Quiet == \A p \in Procs : calls[p].pc = "idle"

RECURSIVE SumOfTransactions(_, _)
SumOfTransactions(txs, u) ==
    IF txs = <<>> THEN 0
    ELSE (IF Head(txs).user_id = u THEN Head(txs).amount ELSE 0)
         + SumOfTransactions(Tail(txs), u)

\* C13: whatever the interleaving of pay calls, an (agreement, principal)
\* pair has at most one payment row and at most one debit transaction.
C13_OnePaymentPerPrincipal ==
    \A d \in DocIds, u \in Users :
        /\ Cardinality({i \in 1..Len(payments) :
                            payments[i].document_id = d /\ payments[i].user_id = u})
               <= 1
        /\ Cardinality({i \in 1..Len(transactions) :
                            /\ transactions[i].type = "payment"
                            /\ transactions[i].user_id = u})
               <= 1

\* C19: when every add_funds and pay call has returned, each principal's
\* wallet balance is the sum of the amounts added minus the sum of the
\* amounts paid, i.e. the sum of the principal's logged transactions.
C19_BalanceIsSumOfCalls ==
    Quiet => \A u \in Users :
                 balance_of(wallets, u) = SumOfTransactions(transactions, u)

\* C20: under any interleaving of accesses there is never more than one
\* wallet per principal.
C20_OneWalletPerPrincipal ==
    \A u \in Users :
        Cardinality({i \in 1..Len(wallets) : wallets[i].user_id = u}) <= 1

\* C21: a setup-distribution whose percentages sum to more than 0.01 away
\* from 100, or that names a principal outside involved_users, is rejected
\* (whoever calls), and the stored distributions, a prior one of the
\* agreement included, are returned exactly as they were.
C21_BadSetupRejected ==
    \A d \in DOMAIN documents, u \in Users, entries \in EntryLists,
       total_amount \in TotalAmounts :
        LET r == setup_payment_distribution_result(
                     documents, payment_distributions, u, d, entries,
                     total_amount)
        IN  (\/ Abs(SumPercentage(entries) - PercentTotal) > PercentTolerance
             \/ \E i \in 1..Len(entries) :
                    entries[i].user_id \notin documents[d].involved_users)
            => /\ r.code # 200
               /\ r.payment_distributions = payment_distributions

\* C21 witness: the primary's setup has just been rejected for naming a
\* principal who is not a member, while a prior distribution is stored.
C21_Witness ==
    /\ resp.op = "setup_distribution" /\ resp.detail = "not_involved"
    /\ "d1" \in DOMAIN payment_distributions
    /\ documents["d1"].involved_users # Users

\* C22: verify returns true on every chain that add calls built and nobody
\* wrote to, of every length, the chain right after one add included.
C22_VerifyTrueWhenUntampered ==
    chain = sealed => verify_blockchain_integrity(chain)

\* C23: verify returns false whenever the payload of a stored block after
\* the genesis block is not the payload the block was added with, and
\* whenever a block's previous_hash is not the hash stored in the block
\* before it.
C23_VerifyFalseWhenTampered ==
    \A i \in 2..Len(chain) :
        (chain[i].data # sealed[i].data \/ chain[i].previous_hash # chain[i - 1].hash)
            => ~verify_blockchain_integrity(chain)

\* C23 witness: verify has just answered false on a chain of three blocks
\* whose last block had its payload replaced and its stored hash renewed to
\* match, every link being intact.
C23_Witness ==
    /\ resp.op = "verify" /\ resp.detail = "false"
    /\ Len(chain) = 3
    /\ chain[3].data # sealed[3].data
    /\ chain[3].hash = calculate_hash(Unhashed(chain[3]))
    /\ chain[2] = sealed[2]
    /\ verify_links_only(chain)

\* C24: at most one pricing config row is active in every reachable state,
\* two concurrent create-pricing calls included.
C24_AtMostOneActivePricing ==
    Cardinality({i \in 1..Len(pricing_config) : pricing_config[i].is_active}) <= 1

\* C26: a create call that passes the name, file and verification checks
\* stores an agreement whose daily_rate is the active pricing config's rate
\* (1 if none), whose total_days is max(1, end - start + 1) with both dates
\* and 1 otherwise, and whose total_amount is daily_rate x total_days; a
\* later pricing change leaves the stored values alone.
C26_CreatePricesAgreement ==
    \A u \in Initiators, d \in DocIds \ DOMAIN documents,
       start_date \in Dates, end_date \in Dates :
        LET r == create_document_result(documents, pricing_config, u, d, TRUE,
                                        TRUE, TRUE, start_date, end_date)
            days == IF start_date # NoDate /\ end_date # NoDate
                       /\ end_date - start_date + 1 > 1
                    THEN end_date - start_date + 1 ELSE 1
        IN  /\ r.code = 200
            /\ r.documents[d].daily_rate = active_rate(pricing_config)
            /\ r.documents[d].total_days = days
            /\ r.documents[d].total_amount = active_rate(pricing_config) * days

\* C25: approve calls by the primary that run at the same time all succeed
\* for members, and no approval is lost: an approval entry, once true, stays
\* true, a call past its write finds its member's entry true, and when all
\* calls have returned and every member's entry is true the status is
\* approved.
C25_ConcurrentApprovalsKept ==
    [][/\ \A x \in DOMAIN documents["d1"].user_approvals :
              documents["d1"].user_approvals[x]
                  => documents'["d1"].user_approvals[x]
       /\ \A p \in Procs :
              (calls'[p].op = "approve_user" /\ calls'[p].pc \in {"read", "status"})
                  => documents'["d1"].user_approvals[calls'[p].user_id]
       /\ (resp'.op = "approve_user" /\ resp'.code # 200)
              => /\ resp'.detail = "not_member"
                 /\ documents["d1"].involved_users # Users
       /\ ((\A p \in Procs : calls'[p].pc = "idle")
           /\ \A m \in documents'["d1"].involved_users :
                  /\ m \in DOMAIN documents'["d1"].user_approvals
                  /\ documents'["d1"].user_approvals[m])
              => documents'["d1"].status = "approved"]_vars

\* C25 witness: two approve calls, one for u2 and one for u3, the two
\* unapproved members, are in flight together, both past their write and
\* neither returned, and both approvals are recorded.
C25_Witness ==
    /\ calls["p1"].op = "approve_user" /\ calls["p1"].user_id = "u2"
    /\ calls["p2"].op = "approve_user" /\ calls["p2"].user_id = "u3"
    /\ calls["p1"].pc = "status" /\ ~calls["p1"].all_approved
    /\ calls["p2"].pc = "status" /\ calls["p2"].all_approved
    /\ documents["d1"].user_approvals["u2"]
    /\ documents["d1"].user_approvals["u3"]
    /\ documents["d1"].status = "pending_approval"

\* C27: whatever join, approve, remove, setup-distribution or other finalize
\* call runs beside it, a finalize call writes the finalized status only
\* onto an agreement that at that instant is in status approved, not yet
\* locked, with every member approved and fully paid.
C27_GuardsHoldWhenFinalizedIsWritten ==
    [][\A p \in Procs :
           (calls[p].op = "finalize" /\ calls[p].pc = "write"
            /\ calls'[p].pc = "chain")
           => /\ documents["d1"].status = "approved"
              /\ ~documents["d1"].is_locked
              /\ \A m \in documents["d1"].involved_users :
                     /\ m \in DOMAIN documents["d1"].user_approvals
                     /\ documents["d1"].user_approvals[m]
              /\ check_all_payments_completed(payment_distributions, payments,
                                              "d1")]_vars

\* C28: after a successful add-user by the primary the target is a member,
\* the approval ledger holds an entry for the target with approved = true,
\* and the status is as it was.
C28_AddedMemberIsApproved ==
    \A d \in DOMAIN documents, u \in Users, target \in Users :
        LET r == add_user_to_document_result(documents, u, d, target)
        IN  r.code = 200
            => /\ target \in r.documents[d].involved_users
               /\ target \in DOMAIN r.documents[d].user_approvals
               /\ r.documents[d].user_approvals[target]
               /\ r.documents[d].status = documents[d].status

\* C29: after a successful remove or reject of a member other than the
\* primary the target is no longer in involved_users, the approval ledger
\* holds no entry for the target, and the status is as it was.
C29_RemovedMemberLosesEntry ==
    \A d \in DOMAIN documents, u \in Users :
      \A user_id \in Users \ {documents[d].primary_user} :
        \A r \in {remove_user_delete_result(documents, u, d, user_id),
                  remove_user_put_result(documents, u, d, user_id),
                  reject_user_join_result(documents, u, d, user_id)} :
            r.code = 200
            => /\ user_id \notin r.documents[d].involved_users
               /\ user_id \notin DOMAIN r.documents[d].user_approvals
               /\ r.documents[d].status = documents[d].status

\* C30: a join is accepted only on an agreement in status draft or
\* pending_approval, from a verified requester who is not a member, and then
\* adds the requester with approved = false and sets pending_approval; a
\* join by a member, or on an agreement in another status, fails and
\* changes nothing.
C30_JoinOnlyWhileOpen ==
    \A d \in DOMAIN documents, u \in Users, verified \in BOOLEAN :
        LET r == join_document_result(documents, u, d, verified)
        IN  IF /\ documents[d].status \in {"draft", "pending_approval"}
               /\ u \notin documents[d].involved_users
               /\ verified
            THEN /\ r.code = 200
                 /\ r.documents[d].involved_users =
                        documents[d].involved_users \cup {u}
                 /\ r.documents[d].user_approvals[u] = FALSE
                 /\ r.documents[d].status = "pending_approval"
            ELSE r.code # 200 /\ r.documents = documents

\* C31: respond(accept) succeeds only for a member other than the primary, on
\* an agreement of status pending, with every verification artifact supplied;
\* a successful call leaves the status approved and the approval entries of
\* the actor and of the primary true; any other call fails and leaves the
\* agreements as they were.
C31_AcceptGuardedAndMarksBoth ==
    \A u \in Users, document_id \in DocIds, verified \in BOOLEAN :
        LET r == respond_to_agreement_result(documents, u, document_id,
                                             "accept", verified)
        IN  IF r.code = 200
            THEN /\ Found(documents, document_id)
                 /\ u \in documents[document_id].involved_users
                 /\ u # documents[document_id].primary_user
                 /\ documents[document_id].status = "pending"
                 /\ verified
                 /\ r.documents[document_id].status = "approved"
                 /\ LET a == r.documents[document_id].user_approvals
                        p == documents[document_id].primary_user
                    IN  /\ {u, p} \subseteq DOMAIN a
                        /\ a[u] = TRUE
                        /\ a[p] = TRUE
            ELSE r.documents = documents

\* an accept has just succeeded on d1
C31_Witness ==
    /\ resp.op = "respond"
    /\ resp.code = 200
    /\ Found(documents, "d1")
    /\ documents["d1"].status = "approved"
    /\ \E u \in documents["d1"].involved_users :
           /\ u # documents["d1"].primary_user
           /\ u \in DOMAIN documents["d1"].user_approvals
           /\ documents["d1"].user_approvals[u]

\* C32: the genesis block is appended with previous_hash "0", and each add
\* appends exactly one block: its index is the chain length before the call,
\* its previous_hash is the hash then stored in the last block, its hash is
\* the digest of the block without its hash field (the value add returns),
\* and the blocks already in the chain are left as they were.
C32_AddAppendsOneLinkedBlock ==
    /\ [](sealed[1] = create_genesis_block /\ sealed[1].previous_hash = ZeroHash)
    /\ [][resp'.op = "chain_add" =>
            LET n == Len(chain)
                b == chain'[n + 1]
            IN  /\ Len(chain') = n + 1
                /\ SubSeq(chain', 1, n) = chain
                /\ b.index = n
                /\ b.previous_hash = chain[n].hash
                /\ b.hash = calculate_hash(Unhashed(b))
                /\ sealed' = Append(sealed, b)]_vars

\* a second block has just been added after the genesis block and a first one
C32_Witness ==
    /\ resp.op = "chain_add"
    /\ Len(chain) = 3
    /\ chain[3].previous_hash = chain[2].hash
    /\ chain[2].hash # ZeroHash

\* C33: whenever an agreement carries a blockchain hash, its status is
\* finalized, it is locked, and the hash is the hash of a block of the chain
\* whose payload names that agreement and its final document references.
C33_HashedIsFinalizedAndChained ==
    \A d \in DOMAIN documents :
        documents[d].blockchain_hash # <<>>
            => /\ documents[d].status = "finalized"
               /\ documents[d].is_locked
               /\ \E i \in 2..Len(chain) :
                      /\ chain[i].hash = documents[d].blockchain_hash
                      /\ chain[i].data.document_id = d
                      /\ chain[i].data.files = documents[d].final_docs

\* C34: in every reachable state each agreement is locked if and only if its
\* status is finalized.
C34_LockedIffFinalized ==
    \A d \in DOMAIN documents :
        documents[d].is_locked <=> documents[d].status = "finalized"

\* C35: after any interleaving of finalize calls the chain holds, for every
\* agreement, at most one block whose payload names that agreement.
C35_OneBlockPerAgreement ==
    \A d \in DocIds :
        Cardinality({i \in 2..Len(chain) : chain[i].data.document_id = d}) <= 1

\* C36: after any interleaving of add_funds, pay and create-payment calls,
\* every wallet's balance is at least 0.
C36_NoNegativeBalance ==
    \A i \in 1..Len(wallets) : wallets[i].balance >= 0

\* what the payment entries of the transaction log for the payment rows of
\* (document_id, u) have taken from u's wallet
RECURSIVE DebitedFor(_, _, _, _)
DebitedFor(txs, pays, document_id, u) ==
    IF txs = <<>> THEN 0
    ELSE (IF /\ Head(txs).type = "payment"
             /\ Head(txs).payment_id \in 1..Len(pays)
             /\ pays[Head(txs).payment_id].document_id = document_id
             /\ pays[Head(txs).payment_id].user_id = u
          THEN 0 - Head(txs).amount ELSE 0)
         + DebitedFor(Tail(txs), pays, document_id, u)

\* the payment rows of (document_id, u)
RowsOf(pays, document_id, u) ==
    {i \in 1..Len(pays) : pays[i].document_id = document_id /\ pays[i].user_id = u}

\* C37: for every agreement and principal whose one payment row is
\* completed, the total debited from the principal's wallet for that
\* agreement equals that payment's amount: a pay after a create-payment does
\* not debit a second time.
C37_DebitedOncePerCompletedPayment ==
    \A d \in DocIds, u \in Users :
        \A i \in RowsOf(payments, d, u) :
            (RowsOf(payments, d, u) = {i} /\ payments[i].status = "completed")
                => DebitedFor(transactions, payments, d, u) = payments[i].amount

\* C38: in every reachable state every principal named in an agreement's
\* payment distribution, the primary aside, is a member of that agreement's
\* involved_users: removing or rejecting a member leaves no entry for a
\* principal who is no longer a member.
C38_ListedPrincipalsAreMembers ==
    \A d \in DOMAIN payment_distributions :
        \A i \in 1..Len(payment_distributions[d].distributions) :
            LET user_id == payment_distributions[d].distributions[i].user_id
            IN  /\ d \in DOMAIN documents
                /\ user_id # documents[d].primary_user
                       => user_id \in documents[d].involved_users

\* C39: when the endpoint of an earlier websocket of a principal observes its
\* disconnect while the registry holds a newer websocket of that principal,
\* the newer websocket stays registered.
C39_NewerConnectionStaysRegistered ==
    [][\A w \in Sockets :
           (sockets[w].state = "gone" /\ sockets'[w].state = "done")
           => LET user_id == sockets[w].user_id
              IN  (user_id \in DOMAIN active_connections
                   /\ active_connections[user_id] # w)
                  => /\ user_id \in DOMAIN active_connections'
                     /\ active_connections'[user_id] = active_connections[user_id]]_vars

=============================================================================
